---- MODULE Spec2Model ----
(***************************************************************************)
(* A model of the orchestration layer of gcutil 1.7.1:                     *)
(*   utils.All                      the pagination loop                    *)
(*   GoogleComputeCommand           WaitForOperation, ExecuteRequests, Run *)
(*   MoveInstances / ResumeMove     the checkpointed zone-to-zone move     *)
(* Each part is a state machine of its own (SpecAll, SpecWait, ...); the   *)
(* parts that are not running stay in their idle state.                    *)
(***************************************************************************)
EXTENDS Integers, Sequences, FiniteSets, TLC

(***************************************************************************)
(* The state                                                               *)
(***************************************************************************)

\* utils.All
VARIABLES
  pages,        \* the server: pages[k] = [n |-> number of items, next |-> token]
  max_results,  \* the max_results argument: None or a number
  pageToken,    \* params['pageToken']; 0 while the key is not set
  items,        \* the local list 'items'
  fetched,      \* history: the pages returned by func(**params).execute(), in order
  all_pc,       \* "idle", "loop" (inside while True) or "done" (returned)
  all_ret       \* the 'items' of the returned dict

allVars == <<pages, max_results, pageToken, items, fetched, all_pc, all_ret>>

\* GoogleComputeCommand.WaitForOperation
VARIABLES
  sleep_between_polls,  \* flag_values.sleep_between_polls
  max_wait_time,        \* flag_values.max_wait_time
  w_arg,                \* the argument 'result' of the call
  w_result,             \* the local 'result'
  w_start_time,         \* start_time
  w_now,                \* timer.time()
  w_polls,              \* history: number of poll_api.get(...).execute() calls
  w_sleeps,             \* history: number of timer.sleep(sleep_between_polls) calls
  w_nondone,            \* history: number of non-DONE statuses the loop test has seen
  w_timeout,            \* history: TRUE when the loop was left by 'break'
  w_get,                \* history: the status of the answer to the GET of
                        \* targetLink; NotRequested while there was none
  w_pc,                 \* "idle", "entry", "loop", "poll", "returned"
  w_ret                 \* the returned value

waitVars == <<sleep_between_polls, max_wait_time, w_arg, w_result, w_start_time,
              w_now, w_polls, w_sleeps, w_nondone, w_timeout, w_get, w_pc, w_ret>>

\* GoogleComputeCommand.ExecuteRequests and the thread pool
VARIABLES
  concurrent_operations,  \* the flag: the size of the thread pool
  wait_for_operation,     \* the flag synchronous_mode, as given to each operation
  requests,               \* the argument: requests[i] = i, the i-th request
  ops,                    \* the list 'ops' of thread-pool operations
  finish_order,           \* history: the operations in the order they finished
  https,                  \* the Http objects created: who created each one, and
                          \* the calls made on it, in order
  op_http,                \* op_http[i]: the local 'http' of operation i's Run
  ex_pc,                  \* "idle", "adding", "collect" or "returned"
  results,                \* the returned list 'results'
  exceptions              \* the returned list 'exceptions'

execHttp == <<https, op_http>>
execVars == <<concurrent_operations, wait_for_operation, requests, ops,
              finish_order, execHttp, ex_pc, results, exceptions>>

\* GoogleComputeCommand.Run
VARIABLES
  synchronous_mode,   \* the flag
  auth_retry,         \* the local auth_retry
  error_in_result,    \* the local error_in_result
  run_result,         \* the local result
  run_exceptions,     \* the local exceptions
  run_bound,          \* whether result and exceptions have been assigned
  run_calls,          \* history: calls of RunWithFlagsAndPositionalArgs
  run_raised,         \* history: the exception raised inside Run, or "none"
  cache_updated,      \* history: flags_cache_obj.UpdateCacheFile() was called
  run_pc,             \* "idle", "start", "loop", "returned" or "propagated"
  run_ret             \* the value Run returned

runVars == <<synchronous_mode, auth_retry, error_in_result, run_result,
             run_exceptions, run_bound, run_calls, run_raised, cache_updated,
             run_pc, run_ret>>

\* MoveInstances / ResumeMove and the project they act on
VARIABLES
  keep_snapshots,       \* the flag keep_snapshots
  keep_log_file,        \* the flag keep_log_file of resumemove
  attached,             \* attached[i]: the persistent disks of instance i
  zone_instances,       \* the project: zone_instances[z] = the instances of zone z
  zone_disks,           \* the project: zone_disks[z] = the disks of zone z
  snapshots,            \* the project: snapshots[d] = the status of the snapshot
                        \* of disk d: "absent", "CREATING" or "READY"
  running,              \* the operations the service has not finished yet
  log_file,             \* the replay log: [exists, instances, snapshot_mappings]
  mv_cmd,               \* "idle", "moveinstances" or "resumemove"
  mv_pc,                \* where HandleMove is: "start", a step, "done", ...
  batch,                \* the requests of the running ExecuteRequests call
  instances_to_mv,      \* the local instances_to_mv
  disks_to_mv,          \* the local disks_to_mv
  snapshot_mappings,    \* the keys of the local snapshot_mappings
  instances_to_delete,  \* the local instances_to_delete of resumemove
  snapshot_mappings_for_unmoved_disks,  \* the keys of that local of resumemove
  disks_in_dest,        \* the local disks_in_dest of resumemove
  disks_to_create,      \* the keys of the local disks_to_create of resumemove
  raised_step,          \* history: the step of the running command in which a
                        \* request raised, or "none"
  op_failed,            \* history: an operation of the running command ended
                        \* with an error
  mv_faults,            \* history: number of timeouts and of failures the
                        \* service chose
  mv_api14,             \* _IsUsingAtLeastApiVersion('v1beta14')
  source_zone,          \* the flag source_zone: the segments of its path,
                        \* <<>> when it is not given
  destination_zone,     \* the flag destination_zone, likewise
  instance_regexes,     \* the positional arguments: each regular expression
                        \* is the set of the names it matches
  mv_error,             \* history: the error moveinstances raised before it
                        \* wrote the log, [kind, check]
  mv_listed,            \* history: moveinstances has listed instances
  snapshot_deletes      \* history: the disks for whose snapshot a delete
                        \* request was issued

moveFlags == <<keep_snapshots, attached, mv_api14, source_zone,
               instance_regexes>>
moveEntry == <<destination_zone, mv_error, mv_listed>>
moveHistory == <<snapshot_deletes>>
project == <<zone_instances, zone_disks, snapshots>>
moveLocals == <<instances_to_mv, disks_to_mv, snapshot_mappings,
                instances_to_delete, snapshot_mappings_for_unmoved_disks,
                disks_in_dest>>
moveVars == <<moveFlags, moveEntry, moveHistory, keep_log_file, project, running, log_file, mv_cmd, mv_pc, batch,
              moveLocals, disks_to_create, raised_step, op_failed, mv_faults>>

\* MoveInstancesBase._ExtractAvailableQuota
VARIABLES
  project_quota,   \* the argument: the quotas of the project, by metric
  zone_quota,      \* the argument: the quotas of the destination zone
  requirements,    \* the argument: the required amount, by metric
  available,       \* the local 'available'
  quota_pc         \* "idle", "call", "returned" or "raised" (KeyError)

quotaVars == <<project_quota, zone_quota, requirements, available, quota_pc>>

\* MoveInstances._CheckInstancePreconditions and _CheckDiskPreconditions
VARIABLES
  chk_instances_to_mv,      \* the argument instances_to_mv: the names, in order
  chk_instances_in_dest,    \* the argument instances_in_dest: the names
  chk_instances_to_ignore,  \* the argument instances_to_ignore: their 'disks'
  chk_disk_names,           \* the argument disk_names
  chk_pc,                   \* "idle", "instances", "disks" (the call made),
                            \* "returned" or "raised"
  chk_call,                 \* history: the call that was made
  chk_error                 \* the CommandError raised, or "none"

checksVars == <<chk_instances_to_mv, chk_instances_in_dest,
                chk_instances_to_ignore, chk_disk_names, chk_pc, chk_call,
                chk_error>>

\* GoogleComputeCommand._HandleSafetyPrompt
VARIABLES
  sp_safety_prompt,   \* hasattr(self, 'safety_prompt')
  sp_force,           \* self._flags.force
  sp_args,            \* positional_arguments
  sp_userinput,       \* the line the user types when asked
  sp_printed,         \* what was printed
  sp_input_read,      \* raw_input was called
  sp_pc,              \* "start", "handle" (Handle is invoked) or "raised"
  sp_error            \* the CommandError raised, or "none"

promptVars == <<sp_safety_prompt, sp_force, sp_args, sp_userinput, sp_printed,
                sp_input_read, sp_pc, sp_error>>

\* GoogleComputeListCommand.Handle and _PrintList
VARIABLES
  ls_sort_by,               \* --sort_by, <<>> when unset
  ls_fetch_all_pages,       \* --fetch_all_pages
  ls_max_results,           \* --max_results
  ls_zone,                  \* --zone: the segments of its path, <<>> when unset
  ls_is_zone_level,         \* is_zone_level_collection
  ls_is_global_level,       \* is_global_level_collection
  ls_default_sort_field,    \* default_sort_field, <<>> when the class has none
  ls_api14,                 \* _IsUsingAtLeastApiVersion('v1beta14')
  ls_zones,                 \* the zones the service lists, in its order
  ls_served,                \* the items the service holds in each namespace
  ls_result,                \* result['items'] of Handle
  ls_rows,                  \* the rows of the table printed
  ls_pc                     \* "start", "handled", "raised", or how the result
                            \* was printed: "printed" (a table), "json", "names"

listFlags == <<ls_sort_by, ls_fetch_all_pages, ls_max_results, ls_zone>>
listClass == <<ls_is_zone_level, ls_is_global_level, ls_default_sort_field>>
listService == <<ls_api14, ls_zones, ls_served>>
listVars == <<listFlags, listClass, listService, ls_result, ls_rows, ls_pc>>

\* GetOperation.Handle inside RunWithFlagsAndPositionalArgs
VARIABLES
  go_cmd,      \* the command: "getoperation", or "other" for a command whose
               \* Handle returns an operation and leaves the flags alone
  go_sync,     \* self._flags.synchronous_mode
  go_api14,    \* _IsUsingAtLeastApiVersion('v1beta14')
  go_zone,     \* self._flags.zone
  go_result,   \* the status of the operation in 'result', "" before Handle
  go_issued,   \* history: the requests executed, in order
  go_sleeps,   \* history: the number of timer.sleep calls
  go_pc        \* "idle", "start", "handled" or "returned"

getOpVars == <<go_cmd, go_sync, go_api14, go_zone, go_result, go_issued,
               go_sleeps, go_pc>>

\* ResumeMove.HandleMove, from its entry to its first request
VARIABLES
  rs_exists,      \* os.path.exists(log_path)
  rs_log,         \* the parsed log: for each key whether it is missing, null
                  \* or has a value, and the names of the logged instances
  rs_in_dest,     \* the names of the instances of the destination zone
  rs_requests,    \* history: the number of mutating requests issued
  rs_removed,     \* history: os.remove(log_path) was called
  rs_error,       \* the exception raised, "none" when none
  rs_pc           \* "idle", "start", "raised", "moving" or "done"

resumeVars == <<rs_exists, rs_log, rs_in_dest, rs_requests, rs_removed,
                rs_error, rs_pc>>

vars == <<allVars, waitVars, execVars, runVars, moveVars, quotaVars,
            checksVars, promptVars, listVars, getOpVars,
            resumeVars>>

\* What a step of each part leaves alone.
allIdle == <<waitVars, execVars, runVars, moveVars, quotaVars, checksVars,
            promptVars, listVars, getOpVars, resumeVars>>
waitIdle == <<allVars, execVars, runVars, moveVars, quotaVars, checksVars,
            promptVars, listVars, getOpVars, resumeVars>>
execIdle == <<allVars, waitVars, runVars, moveVars, quotaVars, checksVars,
            promptVars, listVars, getOpVars, resumeVars>>
runIdle == <<allVars, waitVars, execVars, moveVars, quotaVars, checksVars,
            promptVars, listVars, getOpVars, resumeVars>>
moveIdle == <<allVars, waitVars, execVars, runVars, quotaVars, checksVars,
            promptVars, listVars, getOpVars, resumeVars>>
quotaIdle == <<allVars, waitVars, execVars, runVars, moveVars, checksVars,
            promptVars, listVars, getOpVars, resumeVars>>
checksIdle == <<allVars, waitVars, execVars, runVars, moveVars, quotaVars,
            promptVars, listVars, getOpVars, resumeVars>>
promptIdle == <<allVars, waitVars, execVars, runVars, moveVars, quotaVars,
            checksVars, listVars, getOpVars, resumeVars>>
listIdle == <<allVars, waitVars, execVars, runVars, moveVars, quotaVars,
            checksVars, promptVars, getOpVars, resumeVars>>
getOpIdle == <<allVars, waitVars, execVars, runVars, moveVars, quotaVars,
            checksVars, promptVars, listVars, resumeVars>>
resumeIdle == <<allVars, waitVars, execVars, runVars, moveVars, quotaVars,
            checksVars, promptVars, listVars, getOpVars>>

(***************************************************************************)
(* Part 1: utils.All (utils.py 165-201)                                    *)
(***************************************************************************)

\* The server holds at most MaxPages pages of at most MaxPageItems items.
MaxPages == 3
MaxPageItems == 2


\* Python's None for an integer argument (max_results=None).
None == -1

\* The items of page k: item j of page k is the pair <<k, j>>.
PageItems(k) == [j \in 1..pages[k].n |-> <<k, j>>]

\* func(**params).execute(): without a pageToken the server answers with its
\* first page, with pageToken t with the page the token names.
ListExecute(token) == IF token = 0 THEN 1 ELSE token

\* items[:max_results]
SliceMutant(s, m) == IF m = None THEN s ELSE SubSeq(s, 1, IF m + 1 < Len(s) THEN m + 1 ELSE Len(s))
Slice(s, m) == IF m = None THEN s ELSE SubSeq(s, 1, IF m < Len(s) THEN m ELSE Len(s))

\* params['pageToken'] = next_page_token
NextParamsMutant(k, next_page_token) == k + 1
NextParams(k, next_page_token) == next_page_token

\* A server whose tokens lead forward: page k carries no token (0) or the
\* token of a later page.
PageSets ==
  UNION { { p \in [1..n -> [n : 0..MaxPageItems, next : 0..n]] :
              \A k \in 1..n : p[k].next = 0 \/ p[k].next > k }
          : n \in 1..MaxPages }

InitAllIdle ==
  /\ pages = <<>>
  /\ max_results = None
  /\ pageToken = 0
  /\ items = <<>>
  /\ fetched = <<>>
  /\ all_pc = "idle"
  /\ all_ret = <<>>

InitAll ==
  /\ pages \in PageSets
  /\ max_results \in {None} \cup (0..(MaxPages * MaxPageItems))
  /\ pageToken = 0
  /\ items = <<>>
  /\ fetched = <<>>
  /\ all_pc = "loop"
  /\ all_ret = <<>>

\* One iteration of 'while True' that ends with params['pageToken'] set.
AllFetchNext ==
  /\ all_pc = "loop"
  /\ LET k == ListExecute(pageToken)
         next_page_token == pages[k].next
     IN /\ next_page_token # 0
        /\ items' = items \o PageItems(k)
        /\ fetched' = Append(fetched, k)
        /\ pageToken' = NextParams(k, next_page_token)
  /\ UNCHANGED <<pages, max_results, all_pc, all_ret>>
  /\ UNCHANGED allIdle

\* The iteration that breaks out of the loop, then the slicing and the return.
AllFetchLast ==
  /\ all_pc = "loop"
  /\ LET k == ListExecute(pageToken)
     IN /\ pages[k].next = 0
        /\ items' = items \o PageItems(k)
        /\ fetched' = Append(fetched, k)
        /\ all_ret' = Slice(items \o PageItems(k), max_results)
  /\ all_pc' = "done"
  /\ UNCHANGED <<pages, max_results, pageToken>>
  /\ UNCHANGED allIdle

NextAll == AllFetchNext \/ AllFetchLast


\* The items of the chain of pages that starts at page k and follows the tokens.
RECURSIVE ChainItems(_)
ChainItems(k) ==
  PageItems(k) \o (IF pages[k].next = 0 THEN <<>> ELSE ChainItems(pages[k].next))

\* The concatenation of the items of the pages named by the sequence f.
RECURSIVE ConcatPages(_)
ConcatPages(f) ==
  IF f = <<>> THEN <<>> ELSE PageItems(Head(f)) \o ConcatPages(Tail(f))

FirstElements(s, m) == [i \in 1..(IF m < Len(s) THEN m ELSE Len(s)) |-> s[i]]

\* C4: All returns the concatenation, in fetch order, of the items of every page:
\* the first request carries no pageToken, each later one the token of the
\* previous response, the loop ends at the first response without a token, and
\* with max_results given the result is the first max_results elements of the
\* concatenation.
C4_AllConcatenatesPages ==
  /\ all_pc \in {"loop", "done"} =>
       /\ items = ConcatPages(fetched)
       /\ fetched # <<>> => fetched[1] = 1
       /\ \A i \in 1..(Len(fetched) - 1) : fetched[i + 1] = pages[fetched[i]].next
  /\ all_pc = "loop" =>
       pageToken = (IF fetched = <<>> THEN 0 ELSE pages[fetched[Len(fetched)]].next)
  /\ all_pc = "done" =>
       /\ pages[fetched[Len(fetched)]].next = 0
       /\ \A i \in 1..(Len(fetched) - 1) : pages[fetched[i]].next # 0
       /\ all_ret = (IF max_results = None THEN ChainItems(1)
                     ELSE FirstElements(ChainItems(1), max_results))

\* Two pages were fetched, the second named by a token that skips a page, and
\* the result was cut to max_results.
C4_Witness ==
  /\ all_pc = "done"
  /\ Len(fetched) = 2
  /\ fetched[2] = 3
  /\ max_results # None
  /\ max_results < Len(items)
  /\ Len(all_ret) = max_results
  /\ max_results > pages[1].n

(***************************************************************************)
(* Part 2: GoogleComputeCommand.WaitForOperation (command_base.py 1247-1319)*)
(***************************************************************************)

\* The lower bounds of the flags sleep_between_polls and max_wait_time.
MinSleepBetweenPolls == 1
MinMaxWaitTime == 30
\* sleep_between_polls ranges over MinSleepBetweenPolls..MaxSleep, max_wait_time
\* over MinMaxWaitTime..MinMaxWaitTime + MaxWaitSpan, and a poll's request takes
\* 0..MaxLatency seconds of the timer.
MaxSleep == 31
MaxWaitSpan == 1
MaxLatency == 1


\* A result: its 'kind', and for an operation its status, its operationType,
\* whether it carries an 'error' field, and which response it is (gen 0 is the
\* argument, gen n the answer to the n-th poll).
Operation(status, optype, error, gen) ==
  [kind |-> "compute#operation", status |-> status, operationType |-> optype,
   error |-> error, gen |-> gen]

NonOperation(kind) ==
  [kind |-> kind, status |-> "", operationType |-> "", error |-> FALSE, gen |-> 0]

IsResultAnOperation(result) == result.kind = "compute#operation"

\* while result['status'] != 'DONE'
LoopConditionMutant(result) == result.status = "PENDING"
LoopCondition(result) == result.status # "DONE"

\* if timer.time() - start_time >= flag_values.max_wait_time
TimeoutReachedMutant(now, start_time, max_wait) == now - start_time > max_wait
TimeoutReached(now, start_time, max_wait) == now - start_time >= max_wait

\* The statuses the server may answer a poll with, given the last one seen.
NextStatus(status) ==
  IF status = "PENDING" THEN {"PENDING", "RUNNING", "DONE"} ELSE {"RUNNING", "DONE"}

\* No GET of targetLink was made.
NotRequested == 0

\* The statuses the GET of targetLink may be answered with.
ResponseStatuses == {200, 299, 300, 404}

\* Line 1305: the operation is replaced by its resulting resource.
FetchesTargetMutant(result) == result.operationType # "delete"
FetchesTarget(result) == result.operationType # "delete" /\ ~result.error

\* Line 1311: 200 <= response.status <= 299
IsSuccess(status) == 200 <= status /\ status <= 299

\* return result / return [result, resource]
PlainReturn(result) == [list |-> FALSE, result |-> result]
ListReturn(result) == [list |-> TRUE, result |-> result]

InitWaitIdle ==
  /\ sleep_between_polls = 0
  /\ max_wait_time = 0
  /\ w_arg = NonOperation("None")
  /\ w_result = NonOperation("None")
  /\ w_start_time = 0
  /\ w_now = 0
  /\ w_polls = 0
  /\ w_sleeps = 0
  /\ w_nondone = 0
  /\ w_timeout = FALSE
  /\ w_get = NotRequested
  /\ w_pc = "idle"
  /\ w_ret = PlainReturn(NonOperation("None"))

InitWait ==
  /\ sleep_between_polls \in MinSleepBetweenPolls..MaxSleep
  /\ max_wait_time \in MinMaxWaitTime..(MinMaxWaitTime + MaxWaitSpan)
  /\ w_arg \in {NonOperation("None"), NonOperation("compute#disk")}
               \cup {Operation(st, ot, FALSE, 0) :
                       st \in {"PENDING", "RUNNING"}, ot \in {"insert", "delete"}}
               \cup {Operation("DONE", ot, e, 0) :
                       ot \in {"insert", "delete"}, e \in BOOLEAN}
  /\ w_result = w_arg
  /\ w_start_time = 0
  /\ w_now = 0
  /\ w_polls = 0
  /\ w_sleeps = 0
  /\ w_nondone = 0
  /\ w_timeout = FALSE
  /\ w_get = NotRequested
  /\ w_pc = "entry"
  /\ w_ret = PlainReturn(NonOperation("None"))

\* Lines 1261-1267: a result that is no operation is returned as it is.
WaitEntry ==
  /\ w_pc = "entry"
  /\ IF ~IsResultAnOperation(w_result)
       THEN /\ w_ret' = PlainReturn(w_result)
            /\ w_pc' = "returned"
            /\ UNCHANGED <<w_start_time, w_nondone>>
       ELSE /\ w_start_time' = w_now
            /\ w_nondone' = IF LoopCondition(w_result) THEN 1 ELSE 0
            /\ w_pc' = "loop"
            /\ UNCHANGED w_ret
  /\ UNCHANGED <<sleep_between_polls, max_wait_time, w_arg, w_result, w_now,
                 w_polls, w_sleeps, w_timeout>>
  /\ UNCHANGED w_get
  /\ UNCHANGED waitIdle

\* Lines 1269-1274: the loop test holds and the time is up: break, return result.
WaitTimeout ==
  /\ w_pc = "loop"
  /\ LoopCondition(w_result)
  /\ TimeoutReached(w_now, w_start_time, max_wait_time)
  /\ w_timeout' = TRUE
  /\ w_ret' = PlainReturn(w_result)
  /\ w_pc' = "returned"
  /\ UNCHANGED <<sleep_between_polls, max_wait_time, w_arg, w_result,
                 w_start_time, w_now, w_polls, w_sleeps, w_nondone>>
  /\ UNCHANGED w_get
  /\ UNCHANGED waitIdle

\* Lines 1269-1286: the loop test holds, the time is not up: sleep.
WaitSleep ==
  /\ w_pc = "loop"
  /\ LoopCondition(w_result)
  /\ ~TimeoutReached(w_now, w_start_time, max_wait_time)
  /\ w_now' = w_now + sleep_between_polls
  /\ w_sleeps' = w_sleeps + 1
  /\ w_pc' = "poll"
  /\ UNCHANGED <<sleep_between_polls, max_wait_time, w_arg, w_result,
                 w_start_time, w_polls, w_nondone, w_timeout, w_ret>>
  /\ UNCHANGED w_get
  /\ UNCHANGED waitIdle

\* Lines 1288-1303: poll the operation; the answer replaces result.
WaitPoll ==
  /\ w_pc = "poll"
  /\ \E st \in NextStatus(w_result.status), e \in BOOLEAN, lat \in 0..MaxLatency :
       /\ st # "DONE" => ~e
       /\ w_result' = Operation(st, w_result.operationType, e, w_polls + 1)
       /\ w_now' = w_now + lat
       /\ w_nondone' = IF LoopCondition(w_result') THEN w_nondone + 1 ELSE w_nondone
  /\ w_polls' = w_polls + 1
  /\ w_pc' = "loop"
  /\ UNCHANGED <<sleep_between_polls, max_wait_time, w_arg, w_start_time,
                 w_sleeps, w_timeout, w_ret>>
  /\ UNCHANGED w_get
  /\ UNCHANGED waitIdle

\* Lines 1304-1319: the loop test fails (while ... else): fetch the target of
\* an operation that is no delete and has no error, and return.
WaitDone ==
  /\ w_pc = "loop"
  /\ ~LoopCondition(w_result)
  /\ IF FetchesTarget(w_result)
       THEN \E status \in ResponseStatuses :
              /\ w_get' = status
              /\ w_ret' = IF IsSuccess(status)
                            THEN ListReturn(w_result) ELSE PlainReturn(w_result)
       ELSE /\ w_ret' = PlainReturn(w_result)
            /\ UNCHANGED w_get
  /\ w_pc' = "returned"
  /\ UNCHANGED <<sleep_between_polls, max_wait_time, w_arg, w_result,
                 w_start_time, w_now, w_polls, w_sleeps, w_nondone, w_timeout>>
  /\ UNCHANGED waitIdle

NextWait == WaitEntry \/ WaitTimeout \/ WaitSleep \/ WaitPoll \/ WaitDone


(***************************************************************************)
(* Part 3: GoogleComputeCommand.ExecuteRequests (command_base.py 1213-1245)*)
(* and ApiThreadPoolOperation (178-204). gcutil/thread_pool.py is modelled *)
(* from its use: a pool of a fixed number of worker threads that run the   *)
(* added operations, keep what Run returned or raised, and WaitShutdown,   *)
(* which returns once every added operation has finished.                  *)
(***************************************************************************)

\* The lower bound of the flag concurrent_operations.
MinConcurrentOperations == 1
\* A batch has at most MaxRequests requests, the pool at most MaxConcurrent threads.
MaxRequests == 3
MaxConcurrent == 2
\* An operation polls at most MaxOpPolls times while it waits.
MaxOpPolls == 1

\* What request i yields: the operation or resource it returns, the resource
\* the wait adds, or the exception it raises.
Outcome(i, what) == [req |-> i, what |-> what]

\* thread_pool.Operation: not yet run, running (executing its request, then
\* waiting for its operation), or finished with a result or an exception.
NewOp == [state |-> "queued", raised |-> FALSE, result |-> <<>>, list |-> FALSE]

InProgress == {i \in 1..Len(ops) : ops[i].state \in {"executing", "waiting"}}

\* thread_pool.ThreadPool(self._flags.concurrent_operations)
ThreadPoolSizeMutant == Len(requests)
ThreadPoolSize == concurrent_operations

\* thread_pool.ThreadPool.WaitShutdown returns.
WaitShutdownReturns == \A i \in 1..Len(ops) : ops[i].state = "finished"

Finish(i, raised, result, list) ==
  /\ ops' = [ops EXCEPT ![i] = [state |-> "finished", raised |-> raised,
                                result |-> result, list |-> list]]
  /\ finish_order' = Append(finish_order, i)

\* Lines 1235-1245, the results: the results of the operations that did not
\* raise, in the order of ops; a list result is spliced in (extend).
RECURSIVE CollectResultsMutant(_)
CollectResultsMutant(os) ==
  IF os = <<>> \/ Head(os).raised THEN <<>>
  ELSE Head(os).result \o CollectResultsMutant(Tail(os))
RECURSIVE CollectResults(_)
CollectResults(os) ==
  IF os = <<>> THEN <<>>
  ELSE (IF Head(os).raised THEN <<>> ELSE Head(os).result) \o CollectResults(Tail(os))

\* Lines 1235-1245, the exceptions: the exceptions of the operations that raised.
RECURSIVE CollectExceptions(_)
CollectExceptions(os) ==
  IF os = <<>> THEN <<>>
  ELSE (IF Head(os).raised THEN Head(os).result ELSE <<>>) \o CollectExceptions(Tail(os))

\* No Http object.
NoHttp == 0

\* CreateHttp, lines 1124-1135, called by operation i: a new httplib2.Http
\* object, wrapped for authentication. The value is the list of the objects
\* created so far; the new object is the last one.
CreateHttpMutant(i) ==
  IF https = <<>> THEN <<[creator |-> i, uses |-> <<>>]>> ELSE https
CreateHttp(i) == Append(https, [creator |-> i, uses |-> <<>>])

\* Operation i makes a call (execute, poll or get) on the Http object h.
UseHttp(objs, h, i, call) ==
  [objs EXCEPT ![h].uses = Append(@, [op |-> i, call |-> call])]

\* The polls operation i has issued.
PollsOf(i) ==
  Cardinality({hu \in UNION {{h} \X DOMAIN https[h].uses : h \in DOMAIN https} :
                 https[hu[1]].uses[hu[2]] = [op |-> i, call |-> "poll"]})

InitExecIdle ==
  /\ https = <<>>
  /\ op_http = <<>>
  /\ concurrent_operations = 0
  /\ wait_for_operation = FALSE
  /\ requests = <<>>
  /\ ops = <<>>
  /\ finish_order = <<>>
  /\ ex_pc = "idle"
  /\ results = <<>>
  /\ exceptions = <<>>

InitExec ==
  /\ concurrent_operations \in MinConcurrentOperations..MaxConcurrent
  /\ wait_for_operation \in BOOLEAN
  /\ requests \in {[i \in 1..n |-> i] : n \in 0..MaxRequests}
  /\ https = <<>>
  /\ op_http = [i \in 1..MaxRequests |-> NoHttp]
  /\ ops = <<>>
  /\ finish_order = <<>>
  /\ ex_pc = "adding"
  /\ results = <<>>
  /\ exceptions = <<>>

\* Lines 1228-1233: one iteration of 'for request in requests'.
ExecAdd ==
  /\ ex_pc = "adding"
  /\ Len(ops) < Len(requests)
  /\ ops' = Append(ops, NewOp)
  /\ UNCHANGED <<concurrent_operations, wait_for_operation, requests,
                 finish_order, ex_pc, results, exceptions>>
  /\ UNCHANGED execHttp
  /\ UNCHANGED execIdle

\* A free worker thread of the pool takes an added operation and calls Run.
PoolStart(i) ==
  /\ ops[i].state = "queued"
  /\ Cardinality(InProgress) < ThreadPoolSize
  /\ ops' = [ops EXCEPT ![i].state = "executing"]
  /\ UNCHANGED <<concurrent_operations, wait_for_operation, requests,
                 finish_order, ex_pc, results, exceptions>>
  /\ UNCHANGED execHttp
  /\ UNCHANGED execIdle

\* ApiThreadPoolOperation.Run, lines 197-200: CreateHttp and request.execute,
\* which returns an operation or a resource, or raises.
OpExecute(i) ==
  /\ ops[i].state = "executing"
  /\ op_http' = [op_http EXCEPT ![i] = Len(CreateHttp(i))]
  /\ https' = UseHttp(CreateHttp(i), Len(CreateHttp(i)), i, "execute")
  /\ \/ Finish(i, TRUE, <<Outcome(i, "exception")>>, FALSE)
     \/ /\ wait_for_operation
        /\ ops' = [ops EXCEPT ![i].state = "waiting"]
        /\ UNCHANGED finish_order
     \/ /\ ~wait_for_operation
        /\ Finish(i, FALSE, <<Outcome(i, "result")>>, FALSE)
  /\ UNCHANGED <<concurrent_operations, wait_for_operation, requests, ex_pc,
                 results, exceptions>>
  /\ UNCHANGED execIdle

\* WaitForOperation, lines 1301-1303, in the Run of operation i: one poll of
\* the operation, on the Http object given by Run.
OpPoll(i) ==
  /\ ops[i].state = "waiting"
  /\ PollsOf(i) < MaxOpPolls
  /\ https' = UseHttp(https, op_http[i], i, "poll")
  /\ UNCHANGED <<concurrent_operations, wait_for_operation, requests, ops,
                 finish_order, op_http, ex_pc, results, exceptions>>
  /\ UNCHANGED execIdle

\* ApiThreadPoolOperation.Run, lines 201-205: WaitForOperation returns the
\* result alone or the list [operation, resource], or a poll raises. The
\* resource is fetched on an Http object of its own (lines 1308-1310).
OpWait(i) ==
  /\ ops[i].state = "waiting"
  /\ \/ /\ Finish(i, TRUE, <<Outcome(i, "exception")>>, FALSE)
        /\ PollsOf(i) > 0
        /\ UNCHANGED https
     \/ /\ Finish(i, FALSE, <<Outcome(i, "result")>>, FALSE)
        /\ \/ UNCHANGED https
           \/ https' = UseHttp(CreateHttp(i), Len(CreateHttp(i)), i, "get")
     \/ /\ Finish(i, FALSE, <<Outcome(i, "result"), Outcome(i, "resource")>>, TRUE)
        /\ https' = UseHttp(CreateHttp(i), Len(CreateHttp(i)), i, "get")
  /\ UNCHANGED <<concurrent_operations, wait_for_operation, requests, op_http,
                 ex_pc, results, exceptions>>
  /\ UNCHANGED execIdle

\* Line 1234: tp.WaitShutdown(), after the last tp.Add.
ExecWaitShutdownMutant ==
  /\ ex_pc = "adding"
  /\ Len(ops) = Len(requests)
  /\ ex_pc' = "collect"
  /\ UNCHANGED <<concurrent_operations, wait_for_operation, requests, ops,
                 finish_order, results, exceptions>>
  /\ UNCHANGED execHttp
  /\ UNCHANGED execIdle
ExecWaitShutdown ==
  /\ ex_pc = "adding"
  /\ Len(ops) = Len(requests)
  /\ WaitShutdownReturns
  /\ ex_pc' = "collect"
  /\ UNCHANGED <<concurrent_operations, wait_for_operation, requests, ops,
                 finish_order, results, exceptions>>
  /\ UNCHANGED execHttp
  /\ UNCHANGED execIdle

\* Lines 1235-1245: read every operation's outcome and return.
ExecCollect ==
  /\ ex_pc = "collect"
  /\ results' = CollectResults(ops)
  /\ exceptions' = CollectExceptions(ops)
  /\ ex_pc' = "returned"
  /\ UNCHANGED <<concurrent_operations, wait_for_operation, requests, ops,
                 finish_order>>
  /\ UNCHANGED execHttp
  /\ UNCHANGED execIdle

NextExec ==
  \/ ExecAdd
  \/ \E i \in 1..Len(ops) : PoolStart(i)
  \/ \E i \in 1..Len(ops) : OpExecute(i)
  \/ \E i \in 1..Len(ops) : OpPoll(i)
  \/ \E i \in 1..Len(ops) : OpWait(i)
  \/ ExecWaitShutdown
  \/ ExecCollect

Raised == {i \in 1..Len(ops) : ops[i].raised}

Elements(seq) == {seq[j] : j \in 1..Len(seq)}

NoRepeats(seq) == \A j, k \in 1..Len(seq) : seq[j] = seq[k] => j = k

\* C7: no fail-fast: when ExecuteRequests returns, every request of the batch
\* has been executed, also when others raised; of n requests of which k raised
\* the exceptions are exactly the k exceptions and the results hold the result
\* of each of the n-k others (both elements of a result that is a list).
C7_NoFailFast ==
  ex_pc = "returned" =>
    /\ Len(ops) = Len(requests)
    /\ \A i \in 1..Len(ops) : ops[i].state = "finished"
    /\ Len(exceptions) = Cardinality(Raised)
    /\ Elements(exceptions) = {Outcome(i, "exception") : i \in Raised}
    /\ NoRepeats(results)
    /\ Elements(results) =
         UNION {Elements(ops[i].result) : i \in (1..Len(ops)) \ Raised}
    /\ \A i \in (1..Len(requests)) \ Raised : Outcome(i, "result") \in Elements(results)

\* The first of three requests raised; the other two were still executed and
\* their results, one of them a list, returned.
C7_Witness ==
  /\ ex_pc = "returned"
  /\ Len(requests) = 3
  /\ Raised = {1}
  /\ finish_order[1] = 1
  /\ exceptions = <<Outcome(1, "exception")>>
  /\ Len(results) = 3

Ascending(seq) == \A j, k \in 1..Len(seq) : j < k => seq[j].req <= seq[k].req

\* C8: fork-join: the outcomes are read (ex_pc "collect") only once every
\* request was added and every operation has finished, nothing is read before,
\* and the results and the exceptions come in the order of the requests
\* whatever the order the operations finished in.
C8_ForkJoinInOrder ==
  /\ ex_pc \in {"collect", "returned"} =>
       /\ Len(ops) = Len(requests)
       /\ WaitShutdownReturns
       /\ Len(finish_order) = Len(requests)
  /\ ex_pc \in {"adding", "collect"} => results = <<>> /\ exceptions = <<>>
  /\ ex_pc = "returned" =>
       /\ Ascending(results)
       /\ Ascending(exceptions)
       /\ \A j \in 1..(Len(results) - 1) :
            results[j].req = results[j + 1].req =>
              results[j].what = "result" /\ results[j + 1].what = "resource"

\* The third request finished first, the second raised, and the results start
\* with the first request's.
C8_Witness ==
  /\ ex_pc = "returned"
  /\ finish_order = <<3, 2, 1>>
  /\ exceptions = <<Outcome(2, "exception")>>
  /\ results = <<Outcome(1, "result"), Outcome(1, "resource"), Outcome(3, "result")>>

\* C9: at no time are more than concurrent_operations requests in progress
\* (executing, or waiting for their operation).
C9_BoundedConcurrency ==
  ex_pc # "idle" => Cardinality(InProgress) <= concurrent_operations

\* The pool is full, one of its operations waits for its operation, and a
\* request is held back.
C9_Witness ==
  /\ concurrent_operations = 2
  /\ Cardinality(InProgress) = 2
  /\ \E i \in 1..Len(ops) : ops[i].state = "waiting"
  /\ \E i \in 1..Len(ops) : ops[i].state = "queued"

\* C25: every call an operation of the batch makes, the execution of its
\* request and each poll of its operation, is made on an Http object that
\* was created inside the Run of that operation (the one its local 'http'
\* holds), and no Http object is used by two operations.
C25_OwnHttp ==
  /\ \A h \in DOMAIN https : \A u \in DOMAIN https[h].uses :
       https[h].uses[u].op = https[h].creator
  /\ \A h \in DOMAIN https : \A u \in DOMAIN https[h].uses :
       https[h].uses[u].call \in {"execute", "poll"} =>
         h = op_http[https[h].uses[u].op]
  /\ \A i \in 1..Len(ops) :
       ops[i].state \in {"waiting", "finished"} =>
         /\ op_http[i] # NoHttp
         /\ https[op_http[i]].uses[1] = [op |-> i, call |-> "execute"]

\* Two operations wait at the same time, each has executed its request on
\* its own Http object, and one of them has polled.
C25_Witness ==
  /\ Len(ops) >= 2
  /\ ops[1].state = "waiting"
  /\ ops[2].state = "waiting"
  /\ op_http[1] # op_http[2]
  /\ PollsOf(1) = 1
  /\ https[op_http[2]].uses = <<[op |-> 2, call |-> "execute"]>>

(***************************************************************************)
(* Part 4: GoogleComputeCommand.Run (command_base.py 1033-1122)            *)
(***************************************************************************)

\* A batch collects at most MaxExceptions exceptions; a list result has at
\* most MaxItems items.
MaxExceptions == 2
MaxItems == 2

\* The items of a list result: a resource, or an operation without or with a
\* non-empty error.errors.
ItemKinds == {"resource", "operation", "failed operation"}

\* What RunWithFlagsAndPositionalArgs returns as result: None, a resource, an
\* operation (after the wait, in synchronous mode) or a list resource.
ResultValues ==
  {[kind |-> k, items |-> <<>>] : k \in {"None"} \cup ItemKinds}
    \cup {[kind |-> "list", items |-> it] :
            it \in UNION {[1..n -> ItemKinds] : n \in 0..MaxItems}}

ExceptionKinds == {"HttpError", "AccessTokenRefreshError", "CommandError", "UsageError"}

\* The exceptions a batch collects from its requests.
ExceptionLists ==
  UNION {[1..n -> {"HttpError", "AccessTokenRefreshError"}] : n \in 0..MaxExceptions}

\* op.get('error', {}).get('errors', [])
HasErrors(kind) == kind = "failed operation"

\* _ErrorInResult, lines 1033-1046.
ErrorInResultMutant(result) ==
  synchronous_mode /\ HasErrors(result.kind)
ErrorInResult(result) ==
  \/ synchronous_mode /\ HasErrors(result.kind)
  \/ /\ result.kind = "list"
     /\ \E j \in 1..Len(result.items) : synchronous_mode /\ HasErrors(result.items[j])

\* 'not result'
NotResult(result) == result.kind = "None"

\* Lines 1087-1095: the first AccessTokenRefreshError among the exceptions is
\* raised again when there is no result.
ReraisesRefreshError(result, excs) ==
  /\ \E j \in 1..Len(excs) : excs[j] = "AccessTokenRefreshError"
  /\ NotResult(result)

\* bool(exceptions or error_in_result)
HasErrorsValue(excs, eir) == IF excs # <<>> \/ eir THEN 1 ELSE 0

InitRunIdle ==
  /\ synchronous_mode = FALSE
  /\ auth_retry = FALSE
  /\ error_in_result = FALSE
  /\ run_result = [kind |-> "None", items |-> <<>>]
  /\ run_exceptions = <<>>
  /\ run_bound = FALSE
  /\ run_calls = 0
  /\ run_raised = "none"
  /\ cache_updated = FALSE
  /\ run_pc = "idle"
  /\ run_ret = -1

InitRun ==
  /\ synchronous_mode \in BOOLEAN
  /\ auth_retry = FALSE
  /\ error_in_result = FALSE
  /\ run_result = [kind |-> "None", items |-> <<>>]
  /\ run_exceptions = <<>>
  /\ run_bound = FALSE
  /\ run_calls = 0
  /\ run_raised = "none"
  /\ cache_updated = FALSE
  /\ run_pc = "start"
  /\ run_ret = -1

\* The handlers of the outer try, lines 1113-1122: UsageError propagates, an
\* HttpError and anything else make Run return 1.
Caught(exc) ==
  /\ run_raised' = exc
  /\ IF exc = "UsageError"
       THEN run_pc' = "propagated" /\ UNCHANGED run_ret
       ELSE run_pc' = "returned" /\ run_ret' = 1

\* Lines 1058-1071: parse the arguments, set up the flags; any of it may raise.
RunSetup ==
  /\ run_pc = "start"
  /\ \/ /\ auth_retry' = TRUE
        /\ error_in_result' = FALSE
        /\ run_pc' = "loop"
        /\ UNCHANGED <<run_raised, run_ret>>
     \/ /\ \E exc \in {"UsageError", "CommandError"} : Caught(exc)
        /\ UNCHANGED <<auth_retry, error_in_result>>
  /\ UNCHANGED <<synchronous_mode, run_result, run_exceptions, run_bound,
                 run_calls, cache_updated>>
  /\ UNCHANGED runIdle

\* Lines 1073-1076 and 1097-1103: RunWithFlagsAndPositionalArgs raises. An
\* AccessTokenRefreshError is caught inside the loop, where auth_retry is
\* still True: it is set to False.
RunAttemptRaises ==
  /\ run_pc = "loop"
  /\ auth_retry
  /\ run_calls' = run_calls + 1
  /\ \E exc \in ExceptionKinds :
       IF exc = "AccessTokenRefreshError"
         THEN /\ auth_retry' = FALSE
              /\ run_raised' = exc
              /\ UNCHANGED <<run_pc, run_ret>>
         ELSE /\ Caught(exc)
              /\ UNCHANGED auth_retry
  /\ UNCHANGED <<synchronous_mode, error_in_result, run_result, run_exceptions,
                 run_bound, cache_updated>>
  /\ UNCHANGED runIdle

\* Lines 1073-1095: RunWithFlagsAndPositionalArgs returns; print, log, look
\* for errors in the result and for a refresh error among the exceptions.
\* PrintResult may raise.
RunAttemptReturns ==
  /\ run_pc = "loop"
  /\ auth_retry
  /\ run_calls' = run_calls + 1
  /\ auth_retry' = FALSE
  /\ run_bound' = TRUE
  /\ \E result \in ResultValues, excs \in ExceptionLists :
       /\ run_result' = result
       /\ run_exceptions' = excs
       /\ \/ /\ Caught("CommandError")
             /\ UNCHANGED error_in_result
          \/ /\ error_in_result' = ErrorInResult(result)
             /\ IF ReraisesRefreshError(result, excs)
                  THEN Caught("AccessTokenRefreshError")
                  ELSE UNCHANGED <<run_pc, run_ret, run_raised>>
  /\ UNCHANGED <<synchronous_mode, cache_updated>>
  /\ UNCHANGED runIdle

\* Lines 1105-1112: after the loop. 'exceptions' is not bound when the only
\* call raised: the NameError is caught by the bare except.
RunFinish ==
  /\ run_pc = "loop"
  /\ ~auth_retry
  /\ IF ~run_bound
       THEN /\ Caught("NameError")
            /\ UNCHANGED cache_updated
       ELSE /\ cache_updated' = (HasErrorsValue(run_exceptions, error_in_result) = 0)
            /\ run_ret' = HasErrorsValue(run_exceptions, error_in_result)
            /\ run_pc' = "returned"
            /\ UNCHANGED run_raised
  /\ UNCHANGED <<synchronous_mode, auth_retry, error_in_result, run_result,
                 run_exceptions, run_bound, run_calls>>
  /\ UNCHANGED runIdle

NextRun == RunSetup \/ RunAttemptRaises \/ RunAttemptReturns \/ RunFinish

\* An operation of the result (the result itself or an item of a list result)
\* carries a non-empty error.errors.
OperationErrorIn(result) ==
  \/ result.kind = "failed operation"
  \/ \E j \in 1..Len(result.items) : result.items[j] = "failed operation"

\* C10: Run returns 0 exactly when nothing was raised, the list of exceptions
\* is empty and, in synchronous mode, no operation of the result carries an
\* error; it returns 1 when an exception other than UsageError was raised, an
\* exception was collected or such an error is present; only UsageError
\* propagates.
C10_ExitCode ==
  /\ run_pc = "returned" =>
       /\ run_ret \in {0, 1}
       /\ run_ret = 0 <=>
            /\ run_raised = "none"
            /\ run_bound
            /\ run_exceptions = <<>>
            /\ ~(synchronous_mode /\ OperationErrorIn(run_result))
  /\ run_pc = "propagated" <=> run_raised = "UsageError"
  /\ (run_raised \notin {"none", "UsageError"} /\ run_pc # "loop") =>
       run_pc = "returned" /\ run_ret = 1
  /\ (run_raised = "AccessTokenRefreshError" /\ run_pc = "loop") => ~auth_retry

\* Nothing was raised or collected, but an item of the list result is an
\* operation that failed: Run returned 1.
C10_Witness ==
  /\ run_pc = "returned"
  /\ run_ret = 1
  /\ run_raised = "none"
  /\ run_exceptions = <<>>
  /\ synchronous_mode
  /\ run_result.kind = "list"
  /\ run_result.items = <<"operation", "failed operation">>

\* The last thing raised in this Run is an AccessTokenRefreshError.
RefreshErrorRaised == run_raised = "AccessTokenRefreshError"

\* C24: after an AccessTokenRefreshError (raised by the command, or collected
\* by a batch that produced no result) Run retries: it does not leave its
\* loop, and does not end, before RunWithFlagsAndPositionalArgs was invoked a
\* second time; and there are never more than two invocations in one Run.
C24_Original ==
  [][/\ run_calls' <= 2
     /\ (RefreshErrorRaised /\ run_pc = "loop" /\ run_pc' # "loop") =>
          run_calls >= 2
     /\ (~RefreshErrorRaised /\ RefreshErrorRaised' /\ run_pc' # "loop") =>
          run_calls' >= 2]_vars

\* C29: the flags cache file is updated only by a Run that exits with a
\* non-zero code.
C29_Original ==
  cache_updated => (run_pc = "returned" /\ run_ret # 0)

Ceil(a, b) == (a + b - 1) \div b

Elapsed == w_now - w_start_time

\* C5 (as amended): a result that is no operation is returned unchanged and
\* without a poll or a sleep; for an operation one sleep of sleep_between_polls
\* precedes each poll, the number of polls is the number of non-DONE statuses
\* seen before max_wait_time had elapsed (the status seen when the time is up
\* is not polled again), and no poll follows a DONE status; so PENDING,
\* RUNNING, DONE costs exactly 2 polls when the wait does not time out.
C5_OnePollPerPendingStatus ==
  /\ (w_pc = "returned" /\ ~IsResultAnOperation(w_arg)) =>
       /\ w_ret = PlainReturn(w_arg)
       /\ w_polls = 0
       /\ w_sleeps = 0
  /\ w_pc = "poll" => w_sleeps = w_polls + 1
  /\ w_pc \in {"entry", "loop", "returned"} => w_sleeps = w_polls
  /\ w_pc # "idle" => Elapsed >= w_sleeps * sleep_between_polls
  /\ (w_pc = "returned" /\ IsResultAnOperation(w_arg)) =>
       /\ w_polls = w_nondone - (IF w_timeout THEN 1 ELSE 0)
       /\ ~w_timeout => w_result.status = "DONE"
       /\ (~w_timeout /\ w_nondone = 2) => w_polls = 2
  /\ w_result.status = "DONE" => w_pc # "poll"
  /\ (w_pc = "loop" /\ IsResultAnOperation(w_arg)) =>
       w_polls = w_nondone - (IF w_result.status # "DONE" THEN 1 ELSE 0)

\* An operation given as PENDING was seen RUNNING, then DONE: 2 polls.
C5_Witness ==
  /\ w_pc = "returned"
  /\ w_arg.status = "PENDING"
  /\ w_result.status = "DONE"
  /\ w_nondone = 2
  /\ w_polls = 2
  /\ w_sleeps = 2
  /\ ~w_timeout

\* C5 as stated: exactly one get per non-DONE status the call observes.
C5_Original ==
  (w_pc = "returned" /\ IsResultAnOperation(w_arg)) => w_polls = w_nondone

C6_Inv ==
  /\ w_pc # "idle" => w_polls <= Ceil(max_wait_time, sleep_between_polls)
  /\ w_pc = "poll" => Elapsed - sleep_between_polls < max_wait_time
  /\ w_timeout =>
       /\ w_pc = "returned"
       /\ Elapsed >= max_wait_time
       /\ w_polls >= 1
       /\ w_result.gen = w_polls
       /\ w_result.status # "DONE"
       /\ w_ret = PlainReturn(w_result)
  /\ (w_pc = "returned" /\ IsResultAnOperation(w_arg) /\ w_result.status # "DONE") =>
       w_timeout
  /\ (w_timeout /\ Elapsed = w_sleeps * sleep_between_polls) =>
       w_polls = Ceil(max_wait_time, sleep_between_polls)
  /\ (w_timeout /\ sleep_between_polls = 1 /\ max_wait_time = 30
        /\ Elapsed = w_sleeps) => w_polls = 30

\* C6: the wait terminates; when the operation is not DONE it ends once the
\* elapsed time is at least max_wait_time, returning the last polled
\* operation, not DONE; there are never more than
\* ceil(max_wait_time / sleep_between_polls) polls, and exactly that many when
\* the clock advances by the sleeps alone (30 for sleep 1 and max wait 30).
C6_WaitTerminates == []C6_Inv /\ <>(w_pc = "returned")

\* The stuck operation under the mock timer: 30 polls in 30 seconds.
C6_Witness ==
  /\ w_pc = "returned"
  /\ w_timeout
  /\ sleep_between_polls = 1
  /\ max_wait_time = 30
  /\ w_arg.status = "PENDING"
  /\ w_result.status = "PENDING"
  /\ w_now = 30
  /\ w_polls = 30

\* C26: WaitForOperation returns the list [operation, resource] exactly when
\* the operation it ends with is DONE, is no delete, has no 'error' field and
\* the GET of its targetLink was answered with a status from 200 to 299; in
\* every other case it returns the operation (or the result that is no
\* operation) alone; and targetLink is requested only for a DONE operation
\* that is no delete and has no error, so never after a timeout.
C26_ReturnsResource ==
  /\ w_pc = "returned" =>
       /\ w_ret.result = w_result
       /\ w_ret.list <=>
            /\ w_result.status = "DONE"
            /\ w_result.operationType # "delete"
            /\ ~w_result.error
            /\ 200 <= w_get /\ w_get <= 299
  /\ w_timeout => w_get = NotRequested
  /\ w_get # NotRequested =>
       /\ w_pc = "returned"
       /\ w_result.status = "DONE"
       /\ w_result.operationType # "delete"
       /\ ~w_result.error

\* An insert that was PENDING ended DONE after a poll, the GET of its target
\* was answered 299, and the list was returned.
C26_Witness ==
  /\ w_pc = "returned"
  /\ w_arg.status = "PENDING"
  /\ w_result.status = "DONE"
  /\ w_result.operationType = "insert"
  /\ w_get = 299
  /\ w_ret = ListReturn(w_result)

(***************************************************************************)
(* Part 5: MoveInstances and ResumeMove (move_cmds.py)                     *)
(* The project is the service's side: an accepted request becomes an       *)
(* operation that the service finishes later, on its own.  The commands    *)
(* run with synchronous_mode at its default, true: every worker of a batch *)
(* polls its operation with WaitForOperation.                              *)
(***************************************************************************)

\* The project holds MaxInstances instances and at most MaxDisks disks.
MaxInstances == 2

MaxDisks == 1

\* At most MaxFaults times a wait runs out of time or the service fails a
\* request that it could have served.
MaxFaults == 1

InstanceNames == 1..MaxInstances

DiskNames == 1..MaxDisks

\* The batches of HandleMove, in the order of its calls.
BatchSteps ==
  <<"delete_instances", "create_snapshots", "delete_disks", "create_disks",
    "create_instances", "delete_snapshots">>

IsBatchStep(pc) == \E k \in 1..Len(BatchSteps) : BatchSteps[k] = pc

StepNo(step) == CHOOSE k \in 1..Len(BatchSteps) : BatchSteps[k] = step

\* A list call: the names, in the order the service returns them.
RECURSIVE ListOf(_)
ListOf(S) ==
  IF S = {} THEN <<>>
  ELSE LET first == CHOOSE x \in S : \A y \in S : x <= y
       IN  <<first>> \o ListOf(S \ {first})

Names(list) == {list[k] : k \in 1..Len(list)}

\* One entry per persistent disk of each instance: a disk attached to two
\* instances is listed twice.
RECURSIVE GetPersistentDiskNames(_)
GetPersistentDiskNames(instances) ==
  IF instances = <<>> THEN <<>>
  ELSE ListOf(attached[Head(instances)])
         \o GetPersistentDiskNames(Tail(instances))

\* dict(...): one snapshot name per distinct disk name.  The snapshot of disk
\* d is identified by d.
GenerateSnapshotNames(disk_names) == Names(disk_names)

\* [r for r in resources2 if r['name'] in names1]
Intersect(resources1, resources2) ==
  SelectSeq(resources2, LAMBDA r : r \in Names(resources1))

\* [r for r in resources1 if r['name'] not in names2]
Subtract(resources1, resources2) ==
  SelectSeq(resources1, LAMBDA r : r \notin Names(resources2))

\* resource_name.strip('/').rpartition('/')[2]
DenormalizeResourceName(resource_name) == resource_name[Len(resource_name)]

MAX_INSTANCES_TO_MOVE == 100

MAX_DISKS_TO_MOVE == 100

\* disk['source'].split('/')[-1]
LastSegment(source) == source[Len(source)]

NameCollisionsMutant(to_mv, in_dest) == {}

\* common_names = set(src_names) & set(dest_names)
NameCollisions(to_mv, in_dest) ==
  Names(to_mv) \cap Names(in_dest)

\* _CheckInstancePreconditions: the CommandError it raises, or "none".
CheckInstancePreconditions(to_mv, in_dest) ==
  IF to_mv = <<>> THEN "No matching instances were found."
  ELSE IF Len(to_mv) > MAX_INSTANCES_TO_MOVE
  THEN "At most 100 instances can be moved at a time."
  ELSE IF NameCollisions(to_mv, in_dest) # {}
  THEN "Encountered name collisions."
  ELSE "none"

\* disk['type'] != 'PERSISTENT': continue
IsPersistent(disk) == disk.type = "PERSISTENT"

\* _CheckForDisksInUseByOtherInstances: the instances of the result.
CheckForDisksInUseByOtherInstances(instances, names) ==
  {k \in DOMAIN instances :
     \E j \in DOMAIN instances[k] :
       /\ IsPersistent(instances[k][j])
       /\ LastSegment(instances[k][j].source) \in Names(names)}

\* _CheckDiskPreconditions: the CommandError it raises, or "none".
CheckDiskPreconditions(to_ignore, names) ==
  IF Len(names) > MAX_DISKS_TO_MOVE
  THEN "At most 100 disks can be moved at a time."
  ELSE IF CheckForDisksInUseByOtherInstances(to_ignore,
                                             names) # {}
  THEN "Disks are in use by other instances."
  ELSE "none"

\* The requests of a batch, none executed yet.
NewBatch(targets) ==
  [r \in 1..Len(targets) |->
     [target |-> targets[r], state |-> "new", op |-> "none"]]

\* What each call of HandleMove is given: moveinstances passes what it
\* computed before the log was written, resumemove what it found missing.
Targets(cmd, step, to_create) ==
  CASE step = "delete_instances" ->
         IF cmd = "moveinstances" THEN instances_to_mv ELSE instances_to_delete
    [] step = "create_snapshots" ->
         IF cmd = "moveinstances" THEN ListOf(snapshot_mappings)
         ELSE ListOf(snapshot_mappings_for_unmoved_disks)
    [] step = "delete_disks" -> disks_to_mv
    [] step = "create_disks" ->
         IF cmd = "moveinstances" THEN ListOf(snapshot_mappings)
         ELSE ListOf(to_create)
    [] step = "create_instances" -> instances_to_mv
    [] step = "delete_snapshots" ->
         IF keep_snapshots THEN <<>>
         ELSE IF cmd = "moveinstances" THEN ListOf(snapshot_mappings)
         ELSE ListOf(to_create)
    [] OTHER -> <<>>

\* The statement that follows a step that returned.
NextStep(pc) ==
  CASE pc = "delete_instances" -> "create_snapshots"
    [] pc = "create_snapshots" -> "wait_snapshots"
    [] pc = "wait_snapshots" -> "delete_disks"
    [] pc = "delete_disks" -> "create_disks"
    [] pc = "create_disks" -> "create_instances"
    [] pc = "create_instances" -> "delete_snapshots"
    [] pc = "delete_snapshots" -> "remove_log"
    [] pc = "remove_log" -> "done"

\* The service serves a request only on a resource in the state it needs.
Servable(step, target) ==
  CASE step = "delete_instances" -> target \in zone_instances["source"]
    [] step = "create_snapshots" ->
         target \in zone_disks["source"] /\ snapshots[target] = "absent"
    [] step = "delete_disks" ->
         /\ target \in zone_disks["source"]
         /\ \A i \in zone_instances["source"] : target \notin attached[i]
    [] step = "create_disks" ->
         snapshots[target] = "READY" /\ target \notin zone_disks["dest"]
    [] step = "create_instances" ->
         /\ target \notin zone_instances["dest"]
         /\ attached[target] \subseteq zone_disks["dest"]
    [] step = "delete_snapshots" -> snapshots[target] # "absent"

\* The project after the operation of a request has been carried out.
InstancesAfter(step, target) ==
  CASE step = "delete_instances" ->
         [zone_instances EXCEPT !["source"] = @ \ {target}]
    [] step = "create_instances" ->
         [zone_instances EXCEPT !["dest"] = @ \cup {target}]
    [] OTHER -> zone_instances

DisksAfter(step, target) ==
  CASE step = "delete_disks" -> [zone_disks EXCEPT !["source"] = @ \ {target}]
    [] step = "create_disks" -> [zone_disks EXCEPT !["dest"] = @ \cup {target}]
    [] OTHER -> zone_disks

SnapshotsAfter(step, target) ==
  CASE step = "create_snapshots" -> [snapshots EXCEPT ![target] = "CREATING"]
    [] step = "delete_snapshots" -> [snapshots EXCEPT ![target] = "absent"]
    [] OTHER -> snapshots

\* The operation of request r of the running batch.
OperationOf(r) ==
  [cmd |-> mv_cmd, step |-> mv_pc, target |-> batch[r].target, r |-> r]

\* A worker of the running batch is still polling operation o.
Awaited(o) ==
  /\ mv_cmd = o.cmd
  /\ mv_pc = o.step
  /\ o.r \in DOMAIN batch
  /\ batch[o.r].state = "issued"

\* WaitForOperation: the worker that polls operation o sees it DONE and
\* returns it.
Report(o, status) ==
  IF Awaited(o)
  THEN [batch EXCEPT ![o.r].state = "returned", ![o.r].op = status]
  ELSE batch

\* exceptions, as ExecuteRequests returns it to the step.
Exceptions(b) == {r \in DOMAIN b : b[r].op = "RAISED"}

\* An operation of the results has an error whose first entry has a message.
CheckForErrorsInOps(b) == \E r \in DOMAIN b : b[r].op = "ERROR"

StepRaisesMutant(b) == CheckForErrorsInOps(b)

\* 'if exceptions: raise CommandError(...)', then _CheckForErrorsInOps.
StepRaises(b) == Exceptions(b) # {} \/ CheckForErrorsInOps(b)

\* moveinstances has raised no error.
NoError == [kind |-> "none", check |-> "none"]

InitMoveIdle ==
  /\ keep_snapshots = FALSE
  /\ keep_log_file = FALSE
  /\ attached = [i \in InstanceNames |-> {}]
  /\ zone_instances = [z \in {"source", "dest"} |-> {}]
  /\ zone_disks = [z \in {"source", "dest"} |-> {}]
  /\ snapshots = [d \in DiskNames |-> "absent"]
  /\ running = {}
  /\ log_file = [exists |-> FALSE, instances |-> <<>>, snapshot_mappings |-> {}]
  /\ mv_cmd = "idle"
  /\ mv_pc = "idle"
  /\ batch = <<>>
  /\ instances_to_mv = <<>>
  /\ disks_to_mv = <<>>
  /\ snapshot_mappings = {}
  /\ instances_to_delete = <<>>
  /\ snapshot_mappings_for_unmoved_disks = {}
  /\ disks_in_dest = {}
  /\ disks_to_create = {}
  /\ raised_step = "none"
  /\ op_failed = FALSE
  /\ mv_faults = 0
  /\ mv_api14 = FALSE
  /\ source_zone = <<>>
  /\ destination_zone = <<>>
  /\ instance_regexes = <<>>
  /\ mv_error = NoError
  /\ mv_listed = FALSE
  /\ snapshot_deletes = {}

\* The flags and arguments moveinstances may be given.
ZoneFlags ==
  {<<>>, <<"source">>, <<"dest">>, <<"zones", "source">>, <<"zones", "dest">>}

RegexLists == {<<>>, <<{}>>, <<{1}>>, <<InstanceNames>>}

\* moveinstances is started on a project whose instances, with their disks,
\* are in the source zone; the destination zone may hold an instance of the
\* same name as one of them.
InitMove ==
  /\ keep_snapshots \in BOOLEAN
  /\ keep_log_file = FALSE
  /\ mv_api14 \in BOOLEAN
  /\ source_zone \in {<<>>, <<"source">>}
  /\ destination_zone \in ZoneFlags
  /\ instance_regexes \in RegexLists
  /\ attached \in [InstanceNames -> SUBSET DiskNames]
  /\ \E in_dest \in {{}, {1}} :
       zone_instances = [z \in {"source", "dest"} |->
                           IF z = "source" THEN InstanceNames ELSE in_dest]
  /\ zone_disks = [z \in {"source", "dest"} |->
                     IF z = "source"
                     THEN UNION {attached[i] : i \in InstanceNames} ELSE {}]
  /\ snapshots = [d \in DiskNames |-> "absent"]
  /\ running = {}
  /\ log_file = [exists |-> FALSE, instances |-> <<>>, snapshot_mappings |-> {}]
  /\ mv_cmd = "moveinstances"
  /\ mv_pc = "start"
  /\ batch = <<>>
  /\ instances_to_mv = <<>>
  /\ disks_to_mv = <<>>
  /\ snapshot_mappings = {}
  /\ instances_to_delete = <<>>
  /\ snapshot_mappings_for_unmoved_disks = {}
  /\ disks_in_dest = {}
  /\ disks_to_create = {}
  /\ raised_step = "none"
  /\ op_failed = FALSE
  /\ mv_faults = 0
  /\ mv_error = NoError
  /\ mv_listed = FALSE
  /\ snapshot_deletes = {}

\* Handle and _ValidateFlags, then the test of instance_regexes: the
\* UsageError raised, or "none".
FlagsError ==
  IF ~mv_api14
  THEN "This command requires using API version v1beta14 or higher."
  ELSE IF source_zone = <<>> THEN "You must specify a source zone."
  ELSE IF destination_zone = <<>> THEN "You must specify a destination zone."
  ELSE IF source_zone = destination_zone
  THEN "The destination and source zones cannot be equal."
  ELSE IF instance_regexes = <<>>
  THEN "You must specify at least one regex for instances to move."
  ELSE "none"

\* The list call with filter 'name eq r1|r2|...' (op 'ne': the others) in
\* zone z.
ListInstances(z, op) ==
  ListOf({i \in zone_instances[z] :
            (op = "eq") = (\E k \in DOMAIN instance_regexes :
                             i \in instance_regexes[k])})

\* instance.get('disks', []) of the listed instances: every attached disk of
\* the project is a persistent disk.
DisksOf(instances) ==
  [k \in DOMAIN instances |->
     [j \in 1..Cardinality(attached[instances[k]]) |->
        [type |-> "PERSISTENT",
         source |-> <<"disks", ListOf(attached[instances[k]])[j]>>]]]

\* _GetPersistentDiskNames(instances_to_mv) of the instances listed.
ListedDisksToMv == GetPersistentDiskNames(ListInstances(source_zone[1], "eq"))

\* The check of HandleMove that fails first on what the list calls return,
\* or "none".
PreconditionError ==
  IF CheckInstancePreconditions(
       ListInstances(source_zone[1], "eq"),
       ListInstances(DenormalizeResourceName(destination_zone), "eq")) # "none"
  THEN "instances"
  ELSE IF CheckDiskPreconditions(
            DisksOf(ListInstances(source_zone[1], "ne")),
            ListedDisksToMv) # "none"
  THEN "disks"
  ELSE "none"

\* Handle, _ValidateFlags: UsageError.  Nothing has been listed.
MoveUsageError ==
  /\ mv_cmd = "moveinstances"
  /\ mv_pc = "start"
  /\ FlagsError # "none"
  /\ mv_error' = [kind |-> "UsageError", check |-> "flags"]
  /\ mv_pc' = "aborted"
  /\ UNCHANGED <<moveFlags, moveHistory, destination_zone, mv_listed, keep_log_file, project,
                 running, log_file, mv_cmd, batch, moveLocals, disks_to_create,
                 raised_step, op_failed, mv_faults>>
  /\ UNCHANGED moveIdle

\* MoveInstances.HandleMove up to _Confirm raises CommandError: a check on
\* the instances or the disks fails, the quota does not suffice or the user
\* declines.
MoveRefused ==
  /\ mv_cmd = "moveinstances"
  /\ mv_pc = "start"
  /\ FlagsError = "none"
  /\ destination_zone' = <<DenormalizeResourceName(destination_zone)>>
  /\ mv_listed' = TRUE
  /\ \E quota_ok, proceed \in BOOLEAN :
       /\ PreconditionError # "none" \/ ~quota_ok \/ ~proceed
       /\ mv_error' =
            [kind |-> "CommandError",
             check |-> IF PreconditionError # "none" THEN PreconditionError
                       ELSE IF ~quota_ok THEN "quota" ELSE "confirm"]
  /\ mv_pc' = "aborted"
  /\ instances_to_mv' = ListInstances(source_zone[1], "eq")
  /\ disks_to_mv' = IF PreconditionError = "instances" THEN disks_to_mv
                    ELSE ListedDisksToMv
  /\ UNCHANGED <<moveFlags, moveHistory, keep_log_file, project, running, log_file, mv_cmd,
                 batch, snapshot_mappings, instances_to_delete,
                 snapshot_mappings_for_unmoved_disks, disks_in_dest,
                 disks_to_create, raised_step, op_failed, mv_faults>>
  /\ UNCHANGED moveIdle

\* MoveInstances.HandleMove up to the call of _DeleteInstances: the checks
\* pass, the user confirms, and the log is written.
WriteLogMutant(instances, mappings) == log_file

\* _WriteLog(log_path, instances_to_mv, snapshot_mappings)
WriteLog(instances, mappings) ==
  [exists |-> TRUE, instances |-> instances, snapshot_mappings |-> mappings]

\* MoveInstances.HandleMove up to the call of _DeleteInstances: the checks
\* pass, the user confirms, and the log is written.
MoveWriteLog ==
  /\ mv_cmd = "moveinstances"
  /\ mv_pc = "start"
  /\ FlagsError = "none"
  /\ PreconditionError = "none"
  /\ destination_zone' = <<DenormalizeResourceName(destination_zone)>>
  /\ mv_listed' = TRUE
  /\ instances_to_mv' = ListInstances(source_zone[1], "eq")
  /\ disks_to_mv' = ListedDisksToMv
  /\ snapshot_mappings' = GenerateSnapshotNames(disks_to_mv')
  /\ log_file' = WriteLog(instances_to_mv', snapshot_mappings')
  /\ mv_pc' = "delete_instances"
  /\ batch' = NewBatch(instances_to_mv')
  /\ UNCHANGED <<moveFlags, moveHistory, mv_error, keep_log_file, project, running, mv_cmd,
                 instances_to_delete, snapshot_mappings_for_unmoved_disks,
                 disks_in_dest, disks_to_create, raised_step, op_failed,
                 mv_faults>>
  /\ UNCHANGED moveIdle

\* The snapshot delete requests issued, request r of the batch included.
SnapshotDeletesAfter(r) ==
  IF mv_pc = "delete_snapshots" THEN snapshot_deletes \cup {batch[r].target}
  ELSE snapshot_deletes

\* A worker of ExecuteRequests: request.execute() returns an operation.
RequestExecute(r) ==
  /\ IsBatchStep(mv_pc)
  /\ r \in DOMAIN batch
  /\ batch[r].state = "new"
  /\ Servable(mv_pc, batch[r].target)
  /\ batch' = [batch EXCEPT ![r].state = "issued", ![r].op = "RUNNING"]
  /\ running' = running \cup {OperationOf(r)}
  /\ snapshot_deletes' = SnapshotDeletesAfter(r)
  /\ UNCHANGED <<moveFlags, moveEntry, keep_log_file, project, log_file, mv_cmd, mv_pc,
                 moveLocals, disks_to_create, raised_step, op_failed,
                 mv_faults>>
  /\ UNCHANGED moveIdle

\* A worker of ExecuteRequests: request.execute() raises.  The service
\* refuses what it cannot serve, and may fail what it could.
RequestRaises(r) ==
  /\ IsBatchStep(mv_pc)
  /\ r \in DOMAIN batch
  /\ batch[r].state = "new"
  /\ IF Servable(mv_pc, batch[r].target)
     THEN mv_faults < MaxFaults /\ mv_faults' = mv_faults + 1
     ELSE mv_faults' = mv_faults
  /\ batch' = [batch EXCEPT ![r].state = "returned", ![r].op = "RAISED"]
  /\ raised_step' = mv_pc
  /\ snapshot_deletes' = SnapshotDeletesAfter(r)
  /\ UNCHANGED <<moveFlags, moveEntry, keep_log_file, project, running, log_file, mv_cmd,
                 mv_pc, moveLocals, disks_to_create, op_failed>>
  /\ UNCHANGED moveIdle

\* The service carries out an operation: its status becomes DONE.
OperationDone(o) ==
  /\ o \in running
  /\ Servable(o.step, o.target)
  /\ running' = running \ {o}
  /\ zone_instances' = InstancesAfter(o.step, o.target)
  /\ zone_disks' = DisksAfter(o.step, o.target)
  /\ snapshots' = SnapshotsAfter(o.step, o.target)
  /\ batch' = Report(o, "DONE")
  /\ UNCHANGED <<moveFlags, moveHistory, moveEntry, keep_log_file, log_file, mv_cmd, mv_pc, moveLocals,
                 disks_to_create, raised_step, op_failed, mv_faults>>
  /\ UNCHANGED moveIdle

\* The service gives an operation up: its status becomes DONE with an error,
\* whose first entry has a message or has none.
OperationFails(o) ==
  /\ o \in running
  /\ IF Servable(o.step, o.target)
     THEN mv_faults < MaxFaults /\ mv_faults' = mv_faults + 1
     ELSE mv_faults' = mv_faults
  /\ running' = running \ {o}
  /\ \E status \in {"ERROR", "ERROR_NO_MESSAGE"} : batch' = Report(o, status)
  /\ op_failed' = (op_failed \/ o.cmd = mv_cmd)
  /\ UNCHANGED <<moveFlags, moveHistory, moveEntry, keep_log_file, project, log_file, mv_cmd, mv_pc,
                 moveLocals, disks_to_create, raised_step>>
  /\ UNCHANGED moveIdle

\* The service finishes a snapshot.
SnapshotReady(d) ==
  /\ snapshots[d] = "CREATING"
  /\ snapshots' = [snapshots EXCEPT ![d] = "READY"]
  /\ UNCHANGED <<moveFlags, moveHistory, moveEntry, keep_log_file, zone_instances, zone_disks, running,
                 log_file, mv_cmd, mv_pc, batch, moveLocals, disks_to_create,
                 raised_step, op_failed, mv_faults>>
  /\ UNCHANGED moveIdle

\* A worker of ExecuteRequests returns an operation that is not DONE: the
\* loop of WaitForOperation is left by its timeout.
WaitReturnsPending(r) ==
  /\ IsBatchStep(mv_pc)
  /\ r \in DOMAIN batch
  /\ batch[r].state = "issued"
  /\ mv_faults < MaxFaults
  /\ mv_faults' = mv_faults + 1
  /\ batch' = [batch EXCEPT ![r].state = "returned"]
  /\ UNCHANGED <<moveFlags, moveHistory, moveEntry, keep_log_file, project, running, log_file, mv_cmd,
                 mv_pc, moveLocals, disks_to_create, raised_step, op_failed>>
  /\ UNCHANGED moveIdle

\* ExecuteRequests has returned and the step raises CommandError.
StepAborts ==
  /\ IsBatchStep(mv_pc)
  /\ \A r \in DOMAIN batch : batch[r].state = "returned"
  /\ StepRaises(batch)
  /\ mv_pc' = "aborted"
  /\ batch' = <<>>
  /\ UNCHANGED <<moveFlags, moveHistory, moveEntry, keep_log_file, project, running, log_file, mv_cmd,
                 moveLocals, disks_to_create, raised_step, op_failed,
                 mv_faults>>
  /\ UNCHANGED moveIdle

\* ExecuteRequests has returned (or the step had nothing to do) and the step
\* returns: HandleMove goes on with its next statement.  resumemove lists the
\* snapshots again before it creates the disks.
StepReturns ==
  /\ IsBatchStep(mv_pc)
  /\ \A r \in DOMAIN batch : batch[r].state = "returned"
  /\ ~StepRaises(batch)
  /\ disks_to_create' =
       IF mv_cmd = "resumemove" /\ mv_pc = "delete_disks"
       THEN {d \in snapshot_mappings :
               snapshots[d] # "absent" /\ d \notin disks_in_dest}
       ELSE disks_to_create
  /\ mv_pc' = NextStep(mv_pc)
  /\ batch' = NewBatch(Targets(mv_cmd, mv_pc', disks_to_create'))
  /\ UNCHANGED <<moveFlags, moveHistory, moveEntry, keep_log_file, project, running, log_file, mv_cmd,
                 moveLocals, raised_step, op_failed, mv_faults>>
  /\ UNCHANGED moveIdle

\* The snapshots _WaitForSnapshots is given.
WaitedSnapshots ==
  Names(Targets(mv_cmd, "create_snapshots", disks_to_create))

\* _WaitForSnapshots: no snapshot of the given names is listed with a status
\* other than READY.
WaitForSnapshotsReturns ==
  /\ mv_pc = "wait_snapshots"
  /\ \A d \in WaitedSnapshots : snapshots[d] # "CREATING"
  /\ mv_pc' = NextStep(mv_pc)
  /\ batch' = NewBatch(Targets(mv_cmd, mv_pc', disks_to_create))
  /\ UNCHANGED <<moveFlags, moveHistory, moveEntry, keep_log_file, project, running, log_file, mv_cmd,
                 moveLocals, disks_to_create, raised_step, op_failed,
                 mv_faults>>
  /\ UNCHANGED moveIdle

\* _WaitForSnapshots: max_wait_time has passed and a snapshot is not READY.
WaitForSnapshotsTimeout ==
  /\ mv_pc = "wait_snapshots"
  /\ \E d \in WaitedSnapshots : snapshots[d] = "CREATING"
  /\ mv_pc' = "aborted"
  /\ UNCHANGED <<moveFlags, moveHistory, moveEntry, keep_log_file, project, running, log_file, mv_cmd,
                 batch, moveLocals, disks_to_create, raised_step, op_failed,
                 mv_faults>>
  /\ UNCHANGED moveIdle

\* os.remove(log_path); resumemove keeps the file under keep_log_file.
RemoveLog ==
  /\ mv_pc = "remove_log"
  /\ log_file' = IF mv_cmd = "resumemove" /\ keep_log_file THEN log_file
                 ELSE [log_file EXCEPT !.exists = FALSE]
  /\ mv_pc' = NextStep(mv_pc)
  /\ UNCHANGED <<moveFlags, moveHistory, moveEntry, keep_log_file, project, running, mv_cmd, batch,
                 moveLocals, disks_to_create, raised_step, op_failed,
                 mv_faults>>
  /\ UNCHANGED moveIdle

\* moveinstances is interrupted after the log was written: its threads are
\* gone, the operations the service has accepted go on.
MoveInterrupted ==
  /\ mv_cmd = "moveinstances"
  /\ IsBatchStep(mv_pc) \/ mv_pc \in {"wait_snapshots", "remove_log"}
  /\ mv_pc' = "interrupted"
  /\ batch' = <<>>
  /\ UNCHANGED <<moveFlags, moveHistory, moveEntry, keep_log_file, project, running, log_file, mv_cmd,
                 moveLocals, disks_to_create, raised_step, op_failed,
                 mv_faults>>
  /\ UNCHANGED moveIdle

\* What ResumeMove.HandleMove computes from the log and the project.
ResumeInstancesToMv ==
  Subtract(log_file.instances, ListOf(zone_instances["dest"]))

ResumeDisksToMv == log_file.snapshot_mappings \cap zone_disks["source"]

\* ResumeMove.HandleMove up to _Confirm raises CommandError: there is no
\* log, every instance is in the destination zone, the quota does not
\* suffice or the user declines.
ResumeRefused ==
  /\ mv_cmd = "moveinstances"
  /\ mv_pc \in {"interrupted", "aborted", "done"}
  /\ \E quota_ok, proceed \in BOOLEAN :
       /\ \/ ~log_file.exists
          \/ ResumeInstancesToMv = <<>>
          \/ ~quota_ok
          \/ ~proceed
       /\ mv_cmd' = "resumemove"
  /\ mv_pc' = "aborted"
  /\ raised_step' = "none"
  /\ op_failed' = FALSE
  /\ UNCHANGED <<moveFlags, moveHistory, moveEntry, keep_log_file, project, running, log_file, batch,
                 moveLocals, disks_to_create, mv_faults>>
  /\ UNCHANGED moveIdle

\* ResumeMove.HandleMove up to the call of _DeleteInstances.
ResumeBegin ==
  /\ mv_cmd = "moveinstances"
  /\ mv_pc \in {"interrupted", "aborted", "done"}
  /\ log_file.exists
  /\ ResumeInstancesToMv # <<>>
  /\ mv_cmd' = "resumemove"
  /\ keep_log_file' \in BOOLEAN
  /\ snapshot_mappings' = log_file.snapshot_mappings
  /\ instances_to_mv' = ResumeInstancesToMv
  /\ disks_in_dest' = zone_disks["dest"]
  /\ disks_to_mv' = ListOf(ResumeDisksToMv)
  /\ instances_to_delete' =
       Intersect(instances_to_mv', ListOf(zone_instances["source"]))
  /\ snapshot_mappings_for_unmoved_disks' =
       {d \in ResumeDisksToMv : snapshots[d] = "absent"}
  /\ mv_pc' = "delete_instances"
  /\ batch' = NewBatch(instances_to_delete')
  /\ raised_step' = "none"
  /\ op_failed' = FALSE
  /\ UNCHANGED <<moveFlags, moveHistory, moveEntry, project, running, log_file, disks_to_create,
                 mv_faults>>
  /\ UNCHANGED moveIdle

NextMove ==
  \/ MoveUsageError
  \/ MoveRefused
  \/ MoveWriteLog
  \/ \E r \in DOMAIN batch : RequestExecute(r)
  \/ \E r \in DOMAIN batch : RequestRaises(r)
  \/ \E o \in running : OperationDone(o)
  \/ \E o \in running : OperationFails(o)
  \/ \E d \in DiskNames : SnapshotReady(d)
  \/ \E r \in DOMAIN batch : WaitReturnsPending(r)
  \/ StepAborts
  \/ StepReturns
  \/ WaitForSnapshotsReturns
  \/ WaitForSnapshotsTimeout
  \/ RemoveLog
  \/ MoveInterrupted
  \/ ResumeRefused
  \/ ResumeBegin

\* A request of the running step has been issued.
StepHasIssued == \E r \in DOMAIN batch : batch[r].state # "new"

\* C1: moveinstances takes its steps in the order delete instances, snapshot
\* the disks, delete the disks, create the disks, create the instances,
\* delete the snapshots, and no request of a step is issued while an
\* operation of an earlier step is not DONE.
C1_Original ==
  (mv_cmd = "moveinstances" /\ IsBatchStep(mv_pc) /\ StepHasIssued) =>
    \A o \in running :
      o.cmd = "moveinstances" => StepNo(o.step) >= StepNo(mv_pc)

\* The log has been written (moveinstances never writes an empty one).
LogWritten == log_file.instances # <<>>

C2_Inv ==
  mv_cmd = "moveinstances" =>
    /\ raised_step # "none" =>
         /\ mv_pc \in {raised_step, "aborted", "interrupted"}
         /\ log_file.exists
    /\ (LogWritten /\ ~log_file.exists) =>
         mv_pc = "done" /\ raised_step = "none"

C2_AfterAbort ==
  (mv_cmd = "moveinstances" /\ mv_pc = "aborted" /\ mv_cmd' = "moveinstances")
    => /\ mv_pc' = "aborted"
       /\ running' \subseteq running
       /\ log_file' = log_file
       /\ \A z \in {"source", "dest"} :
            /\ zone_instances'[z] # zone_instances[z] => running' # running
            /\ zone_disks'[z] # zone_disks[z] => running' # running

\* C2: once a request of a step of moveinstances has raised, the command
\* does not go beyond that step: it ends with CommandError, after which it
\* starts no operation, the project changes only by what was already under
\* way, and the log stays; the log is removed only by a run in which no
\* request raised and that has reached its end.
C2_AbortKeepsLog == []C2_Inv /\ [][C2_AfterAbort]_vars

C2_Witness ==
  /\ mv_cmd = "moveinstances"
  /\ mv_pc = "aborted"
  /\ raised_step = "create_snapshots"
  /\ log_file.exists
  /\ zone_instances["source"] = {}
  /\ zone_instances["dest"] = {}

\* C3: a resumemove that ends without a failed request leaves every logged
\* instance in the destination zone and every logged disk in the destination
\* zone and not in the source zone.
C3_Original ==
  (mv_cmd = "resumemove" /\ mv_pc = "done" /\ raised_step = "none"
     /\ ~op_failed) =>
    /\ Names(log_file.instances) \subseteq zone_instances["dest"]
    /\ log_file.snapshot_mappings \subseteq zone_disks["dest"]
    /\ log_file.snapshot_mappings \cap zone_disks["source"] = {}

\* The flags are as C14 names them: the API version is older than v1beta14,
\* a zone is missing, the two flags name the same zone, or no regular
\* expression is given.
C14_BadFlags ==
  \/ ~mv_api14
  \/ source_zone = <<>>
  \/ destination_zone = <<>>
  \/ source_zone[Len(source_zone)] = destination_zone[Len(destination_zone)]
  \/ instance_regexes = <<>>

\* No request has been issued and the project is as it was.
NothingIssued ==
  /\ batch = <<>>
  /\ running = {}
  /\ zone_instances["source"] = InstanceNames
  /\ zone_disks["dest"] = {}
  /\ \A d \in DiskNames : snapshots[d] = "absent"

\* C14: when the API version is older than v1beta14, --source_zone or
\* --destination_zone is missing, the two zones are equal or no instance
\* regex is given, moveinstances raises UsageError, and has listed no
\* instance, written no log and issued no mutating request.
C14_Original ==
  (mv_cmd = "moveinstances" /\ mv_pc # "start" /\ C14_BadFlags) =>
    /\ mv_pc = "aborted"
    /\ mv_error = [kind |-> "UsageError", check |-> "flags"]
    /\ ~mv_listed
    /\ ~LogWritten
    /\ NothingIssued

\* Request r of the running batch is executed: it is served or it raises.
Issued(r) == RequestExecute(r) \/ RequestRaises(r)

\* C18: in moveinstances and in resumemove, a delete request for a disk of
\* the source zone is issued only when the snapshot of that disk exists and
\* has status READY.
C18_Original ==
  [][\A r \in DOMAIN batch :
       (mv_pc = "delete_disks" /\ Issued(r)
          /\ batch[r].target \in zone_disks["source"])
         => snapshots[batch[r].target] = "READY"]_vars

\* C19: a step one of whose operations is returned with an error (a
\* non-empty error.errors list) raises CommandError: it does not return, and
\* the next step does not start.
C19_Original ==
  [][StepReturns =>
       \A r \in DOMAIN batch :
         batch[r].op \notin {"ERROR", "ERROR_NO_MESSAGE"}]_vars

\* C20: moveinstances has written the log when it issues its first request,
\* and when a check on the instances or the disks, the quota check or the
\* confirmation of the user fails, it has written no log and issued no
\* mutating request.
C20_LogBeforeRequests ==
  mv_cmd = "moveinstances" =>
    /\ (StepHasIssued \/ running # {} \/ ~NothingIssued) =>
         (LogWritten /\ mv_error = NoError)
    /\ mv_error.kind = "CommandError" =>
         /\ mv_pc = "aborted"
         /\ mv_error.check \in {"instances", "disks", "quota", "confirm"}
         /\ ~LogWritten /\ ~log_file.exists
         /\ NothingIssued

C20_Witness ==
  /\ mv_cmd = "moveinstances"
  /\ mv_pc = "aborted"
  /\ mv_error = [kind |-> "CommandError", check |-> "disks"]
  /\ instance_regexes = <<{1}>>
  /\ ~log_file.exists

\* _CreateQuotaRequirementsDict of moveinstances (snapshots_to_create is
\* None): the amounts counted from the two lists.
CreateQuotaRequirementsDict(instances, disks) ==
  [INSTANCES |-> Len(instances), DISKS |-> Len(disks), SNAPSHOTS |-> Len(disks)]

\* C21: when moveinstances or resumemove reports that the move completed,
\* a delete request has been issued for every snapshot created for the disks
\* of the move, unless keep_snapshots is set; with keep_snapshots set no
\* snapshot delete request is ever issued.
C21_Original ==
  /\ keep_snapshots => snapshot_deletes = {}
  /\ (mv_cmd \in {"moveinstances", "resumemove"} /\ mv_pc = "done"
        /\ ~keep_snapshots) =>
       \A d \in DiskNames : snapshots[d] # "absent" => d \in snapshot_deletes

\* C22: moveinstances issues at most one snapshot-create request and at most
\* one delete request for each distinct persistent disk, also for a disk
\* attached to several of the moved instances, and the DISKS quota
\* requirement counts each distinct disk once.
C22_Original ==
  (mv_cmd = "moveinstances" /\ LogWritten) =>
    /\ mv_pc \in {"create_snapshots", "delete_disks"} =>
         \A r1, r2 \in DOMAIN batch :
           batch[r1].target = batch[r2].target => r1 = r2
    /\ CreateQuotaRequirementsDict(instances_to_mv, disks_to_mv).DISKS
         = Cardinality({disks_to_mv[k] : k \in DOMAIN disks_to_mv})

(***************************************************************************)
(* Part 6: MoveInstancesBase._ExtractAvailableQuota (move_cmds.py 401-436) *)
(***************************************************************************)

\* Limits and usages are at most MaxQuota, required amounts at most
\* MaxRequired.
MaxQuota == 1

MaxRequired == 1

\* A metric that is moved, the metric that is created, and none besides.
Metrics == {"INSTANCES", "SNAPSHOTS"}

\* A list of quotas names each metric at most once: a dict by metric.
QuotaLists ==
  UNION {[D -> [limit : 0..MaxQuota, usage : 0..MaxQuota]] :
           D \in SUBSET Metrics}

RequirementDicts == UNION {[D -> 0..MaxRequired] : D \in SUBSET Metrics}

Min(a, b) == IF a <= b THEN a ELSE b

\* The first loop: limit - usage, plus the requirement unless SNAPSHOTS, for
\* the metrics of project_quota that are in pertinent_resources.
AfterProjectQuota(quotas, required) ==
  [metric \in DOMAIN quotas \cap DOMAIN required |->
     quotas[metric].limit - quotas[metric].usage
       + (IF metric # "SNAPSHOTS" THEN required[metric] ELSE 0)]

\* The second loop reads available[metric] for every pertinent metric of
\* zone_quota: a metric the first loop did not set is a KeyError.
ZoneQuotaKeyError(avail, zone, required) ==
  \E metric \in DOMAIN zone \cap DOMAIN required : metric \notin DOMAIN avail

\* The second loop: min(available[metric], limit - usage).
AfterZoneQuota(avail, zone) ==
  [metric \in DOMAIN avail |->
     IF metric \in DOMAIN zone
     THEN Min(avail[metric], zone[metric].limit - zone[metric].usage)
     ELSE avail[metric]]

InitQuotaIdle ==
  /\ project_quota = <<>>
  /\ zone_quota = <<>>
  /\ requirements = <<>>
  /\ available = <<>>
  /\ quota_pc = "idle"

InitQuota ==
  /\ project_quota \in QuotaLists
  /\ zone_quota \in QuotaLists
  /\ requirements \in RequirementDicts
  /\ available = <<>>
  /\ quota_pc = "call"

\* _ExtractAvailableQuota returns available.
ExtractReturns ==
  /\ quota_pc = "call"
  /\ ~ZoneQuotaKeyError(AfterProjectQuota(project_quota, requirements),
                        zone_quota, requirements)
  /\ available' = AfterZoneQuota(AfterProjectQuota(project_quota, requirements),
                                 zone_quota)
  /\ quota_pc' = "returned"
  /\ UNCHANGED <<project_quota, zone_quota, requirements>>
  /\ UNCHANGED quotaIdle

\* _ExtractAvailableQuota raises KeyError in its second loop.
ExtractRaises ==
  /\ quota_pc = "call"
  /\ ZoneQuotaKeyError(AfterProjectQuota(project_quota, requirements),
                       zone_quota, requirements)
  /\ available' = AfterProjectQuota(project_quota, requirements)
  /\ quota_pc' = "raised"
  /\ UNCHANGED <<project_quota, zone_quota, requirements>>
  /\ UNCHANGED quotaIdle

NextQuota == ExtractReturns \/ ExtractRaises

\* The value the claim gives for a required metric the project lists.
ClaimedAvailable(metric) ==
  LET fromProject ==
        project_quota[metric].limit - project_quota[metric].usage
          + (IF metric # "SNAPSHOTS" THEN requirements[metric] ELSE 0)
  IN  IF metric \in DOMAIN zone_quota
      THEN Min(fromProject,
               zone_quota[metric].limit - zone_quota[metric].usage)
      ELSE fromProject

\* C11: _ExtractAvailableQuota returns, for exactly the required metrics that
\* the project lists, limit minus usage plus the requirement (not for
\* SNAPSHOTS), lowered to the zone's limit minus usage when the zone lists
\* the metric.
C11_Original ==
  quota_pc # "call" =>
    /\ quota_pc = "returned"
    /\ DOMAIN available = DOMAIN project_quota \cap DOMAIN requirements
    /\ \A metric \in DOMAIN available :
         available[metric] = ClaimedAvailable(metric)

(***************************************************************************)
(* Part 7: the precondition checks of moveinstances (move_cmds.py 589-656) *)
(***************************************************************************)

\* The lists given to the checks have at most MaxListLen entries; at most
\* MaxIgnored instances are not moved, each with at most MaxAttached disks.
MaxListLen == 101

MaxIgnored == 1

MaxAttached == 2

\* The list of n names 1, 2, ..., in which only the first 'distinct' names
\* occur: with distinct < n it names some resource more than once.
NameList(n, distinct) == [k \in 1..n |-> ((k - 1) % distinct) + 1]

\* The lists of at most n elements of S.
ListsUpTo(S, n) == UNION {[1..k -> S] : k \in 0..n}

\* disk['source'] is a URL; its last segment is the name of the disk.
DiskEntries ==
  {[type |-> "PERSISTENT", source |-> <<"disks", 1>>],
   [type |-> "PERSISTENT", source |-> <<"disks", MaxListLen + 1>>],
   [type |-> "EPHEMERAL", source |-> <<"disks", 1>>]}

InitChecksIdle ==
  /\ chk_instances_to_mv = <<>>
  /\ chk_instances_in_dest = <<>>
  /\ chk_instances_to_ignore = <<>>
  /\ chk_disk_names = <<>>
  /\ chk_pc = "idle"
  /\ chk_call = "none"
  /\ chk_error = "none"

\* One of the two checks is called, with lists as the list calls return
\* them: the instances of a zone have distinct names.
InitChecks ==
  /\ chk_pc \in {"instances", "disks"}
  /\ chk_call = chk_pc
  /\ chk_error = "none"
  /\ IF chk_pc = "instances"
     THEN /\ \E n \in 0..MaxListLen : chk_instances_to_mv = NameList(n, n)
          /\ \E S \in SUBSET {1, MAX_INSTANCES_TO_MOVE, MaxListLen + 1} :
               chk_instances_in_dest = ListOf(S)
          /\ chk_instances_to_ignore = <<>>
          /\ chk_disk_names = <<>>
     ELSE /\ chk_instances_to_mv = <<>>
          /\ chk_instances_in_dest = <<>>
          /\ chk_instances_to_ignore
               \in ListsUpTo(ListsUpTo(DiskEntries, MaxAttached), MaxIgnored)
          /\ \E n \in 0..MaxListLen : \E distinct \in {1, 2, n} :
               /\ distinct \in 1..n \/ (n = 0 /\ distinct = 1)
               /\ chk_disk_names = NameList(n, distinct)

CheckInstancesRaises ==
  /\ chk_pc = "instances"
  /\ CheckInstancePreconditions(chk_instances_to_mv,
                                chk_instances_in_dest) # "none"
  /\ chk_error' = CheckInstancePreconditions(chk_instances_to_mv,
                                             chk_instances_in_dest)
  /\ chk_pc' = "raised"
  /\ UNCHANGED <<chk_instances_to_mv, chk_instances_in_dest,
                 chk_instances_to_ignore, chk_disk_names, chk_call>>
  /\ UNCHANGED checksIdle

CheckInstancesReturns ==
  /\ chk_pc = "instances"
  /\ CheckInstancePreconditions(chk_instances_to_mv,
                                chk_instances_in_dest) = "none"
  /\ chk_pc' = "returned"
  /\ UNCHANGED <<chk_instances_to_mv, chk_instances_in_dest,
                 chk_instances_to_ignore, chk_disk_names, chk_call,
                 chk_error>>
  /\ UNCHANGED checksIdle

CheckDisksRaises ==
  /\ chk_pc = "disks"
  /\ CheckDiskPreconditions(chk_instances_to_ignore, chk_disk_names) # "none"
  /\ chk_error' = CheckDiskPreconditions(chk_instances_to_ignore,
                                         chk_disk_names)
  /\ chk_pc' = "raised"
  /\ UNCHANGED <<chk_instances_to_mv, chk_instances_in_dest,
                 chk_instances_to_ignore, chk_disk_names, chk_call>>
  /\ UNCHANGED checksIdle

CheckDisksReturns ==
  /\ chk_pc = "disks"
  /\ CheckDiskPreconditions(chk_instances_to_ignore, chk_disk_names) = "none"
  /\ chk_pc' = "returned"
  /\ UNCHANGED <<chk_instances_to_mv, chk_instances_in_dest,
                 chk_instances_to_ignore, chk_disk_names, chk_call,
                 chk_error>>
  /\ UNCHANGED checksIdle

NextChecks ==
  \/ CheckInstancesRaises
  \/ CheckInstancesReturns
  \/ CheckDisksRaises
  \/ CheckDisksReturns

\* C12: _CheckInstancePreconditions raises CommandError exactly when the list
\* of instances to move is empty, has more than 100 instances or shares a
\* name with the instances of the destination zone; otherwise it returns.
C12_InstancePreconditions ==
  (chk_call = "instances" /\ chk_pc # "instances") =>
    /\ chk_pc \in {"raised", "returned"}
    /\ chk_pc = "raised" <=>
         \/ Len(chk_instances_to_mv) = 0
         \/ Len(chk_instances_to_mv) > 100
         \/ \E i \in DOMAIN chk_instances_to_mv :
              \E j \in DOMAIN chk_instances_in_dest :
                chk_instances_to_mv[i] = chk_instances_in_dest[j]

C12_Witness ==
  /\ chk_call = "instances"
  /\ chk_pc = "raised"
  /\ Len(chk_instances_to_mv) = 100
  /\ chk_instances_in_dest = <<100>>

\* An instance that is not moved has a PERSISTENT disk that is to be moved.
InUseByIgnored ==
  \E k \in DOMAIN chk_instances_to_ignore :
    \E j \in DOMAIN chk_instances_to_ignore[k] :
      /\ chk_instances_to_ignore[k][j].type = "PERSISTENT"
      /\ \E n \in DOMAIN chk_disk_names :
           chk_disk_names[n] = chk_instances_to_ignore[k][j].source[2]

\* C13: _CheckDiskPreconditions raises CommandError exactly when more than
\* 100 disks are to be moved or an instance that is not moved has an attached
\* PERSISTENT disk whose name is among the disks to move; after it returns no
\* disk to move is attached to an instance that is not moved.
C13_Original ==
  (chk_call = "disks" /\ chk_pc # "disks") =>
    /\ chk_pc \in {"raised", "returned"}
    /\ chk_pc = "raised" <=>
         (Cardinality(Names(chk_disk_names)) > 100 \/ InUseByIgnored)
    /\ chk_pc = "returned" => ~InUseByIgnored

(***************************************************************************)
(* Part 8: the safety prompt (command_base.py 965-994, 1166-1170).  The    *)
(* user answers the prompt with a line of at most MaxAnswerLen characters. *)
(***************************************************************************)

MaxAnswerLen == 3

AnswerChars == {" ", "\t", "y", "Y", "n", "e"}

Whitespace == {" ", "\t"}

\* str.lstrip()
RECURSIVE LStrip(_)
LStrip(s) ==
  IF s # <<>> /\ Head(s) \in Whitespace THEN LStrip(Tail(s)) ELSE s

\* s[:1]
FirstChar(s) == IF s = <<>> THEN <<>> ELSE <<Head(s)>>

\* str.lower()
Lower(s) ==
  [k \in DOMAIN s |-> IF s[k] = "Y" THEN "y" ELSE s[k]]

ConfirmedMutant(userinput) == userinput # <<"n">>

\* userinput == 'y'
Confirmed(userinput) == userinput = <<"y">>

\* The prompt printed: '%s? [y/N]' with the positional arguments joined.
PromptLine(args) == <<"safety_prompt", args, "? [y/N]">>

\* _HandleSafetyPrompt: True if the command should continue.
HandleSafetyPrompt(safety_prompt, force, userinput) ==
  IF safety_prompt /\ ~force
  THEN Confirmed(Lower(FirstChar(LStrip(IF userinput = <<>> THEN <<"n">>
                                        ELSE userinput))))
  ELSE TRUE

InitPromptIdle ==
  /\ sp_safety_prompt = FALSE
  /\ sp_force = FALSE
  /\ sp_args = <<>>
  /\ sp_userinput = <<>>
  /\ sp_printed = <<>>
  /\ sp_input_read = FALSE
  /\ sp_pc = "idle"
  /\ sp_error = "none"

\* The flag --force is defined only for a command with a safety prompt.
InitPrompt ==
  /\ sp_safety_prompt \in BOOLEAN
  /\ sp_force \in (IF sp_safety_prompt THEN BOOLEAN ELSE {FALSE})
  /\ sp_args \in {<<>>, <<"a">>}
  /\ sp_userinput \in UNION {[1..k -> AnswerChars] : k \in 0..MaxAnswerLen}
  /\ sp_printed = <<>>
  /\ sp_input_read = FALSE
  /\ sp_pc = "start"
  /\ sp_error = "none"

\* The prompt is printed and the answer read when the command has a prompt
\* and --force is not given.
Asked ==
  /\ sp_printed' = IF sp_safety_prompt /\ ~sp_force
                   THEN Append(sp_printed, PromptLine(sp_args))
                   ELSE sp_printed
  /\ sp_input_read' = (sp_input_read \/ (sp_safety_prompt /\ ~sp_force))

\* RunWithFlagsAndPositionalArgs: result = self.Handle(*pos_arg_values)
RunInvokesHandle ==
  /\ sp_pc = "start"
  /\ HandleSafetyPrompt(sp_safety_prompt, sp_force, sp_userinput)
  /\ Asked
  /\ sp_pc' = "handle"
  /\ UNCHANGED <<sp_safety_prompt, sp_force, sp_args, sp_userinput, sp_error>>
  /\ UNCHANGED promptIdle

\* RunWithFlagsAndPositionalArgs: raise CommandError('Operation aborted')
RunAborted ==
  /\ sp_pc = "start"
  /\ ~HandleSafetyPrompt(sp_safety_prompt, sp_force, sp_userinput)
  /\ Asked
  /\ sp_pc' = "raised"
  /\ sp_error' = "Operation aborted"
  /\ UNCHANGED <<sp_safety_prompt, sp_force, sp_args, sp_userinput>>
  /\ UNCHANGED promptIdle

NextPrompt == RunInvokesHandle \/ RunAborted

\* The answer, after leading whitespace, begins with 'y' or 'Y'.
AnswerBeginsWithY ==
  \E k \in DOMAIN sp_userinput :
    /\ sp_userinput[k] \in {"y", "Y"}
    /\ \A j \in 1..(k - 1) : sp_userinput[j] \in {" ", "\t"}

\* C15: for a command with a safety prompt, Handle is invoked only if --force
\* is set or the answer, after leading whitespace, begins with 'y' or 'Y'; on
\* any other answer CommandError('Operation aborted') is raised and Handle is
\* not invoked; with --force nothing is printed and no input is read.
C15_SafetyPrompt ==
  (sp_safety_prompt /\ sp_pc \in {"handle", "raised"}) =>
    /\ sp_pc = "handle" => (sp_force \/ AnswerBeginsWithY)
    /\ (~sp_force /\ ~AnswerBeginsWithY) =>
         (sp_pc = "raised" /\ sp_error = "Operation aborted")
    /\ sp_force => (sp_printed = <<>> /\ ~sp_input_read)

C15_Witness ==
  /\ sp_safety_prompt
  /\ ~sp_force
  /\ sp_userinput = <<" ", "Y", "e">>
  /\ sp_pc = "handle"
  /\ sp_input_read

(***************************************************************************)
(* Part 9: the list commands (command_base.py 1725-1808).  The service     *)
(* lists its zones (at least one) and holds at most MaxZoneItems items in  *)
(* each namespace; the table has the columns 'name' and 'size-gb'.  A cell *)
(* is a string: a sequence of characters, each a number (a digit is its    *)
(* own value), compared as Python compares strings.  utils.All is the      *)
(* paging loop of Part 1; here it is its result, Slice of the namespace.   *)
(***************************************************************************)

MaxZoneItems == 2

MaxResults == 2

GLOBAL_ZONE_NAME == "global"

\* The items each namespace may hold.
NamespaceItems(ns) ==
  IF ns = GLOBAL_ZONE_NAME THEN {[name |-> <<1>>, size |-> 9]}
  ELSE IF ns = "a" THEN {[name |-> <<2>>, size |-> 10],
                         [name |-> <<1, 1>>, size |-> 9]}
  ELSE {[name |-> <<2>>, size |-> 9]}

\* The lists of at most n distinct elements of S.
Arrangements(S, n) ==
  {s \in ListsUpTo(S, n) : \A i, j \in DOMAIN s : s[i] = s[j] => i = j}

\* summary_fields: the column names.
ColumnNames == << <<"name">>, <<"size-gb">> >>

\* --sort_by is an enum of the column names and of '-' + each of them.
SortFields ==
  {ColumnNames[k] : k \in DOMAIN ColumnNames}
    \cup {<<"-">> \o ColumnNames[k] : k \in DOMAIN ColumnNames}

\* str(x) of a number below 100.
Str(n) == IF n < 10 THEN <<n>> ELSE <<n \div 10, n % 10>>

\* a < b for strings.
RECURSIVE StrLess(_, _)
StrLess(a, b) ==
  IF b = <<>> THEN FALSE
  ELSE IF a = <<>> THEN TRUE
  ELSE IF Head(a) # Head(b) THEN Head(a) < Head(b)
  ELSE StrLess(Tail(a), Tail(b))

\* _FlattenObjectToList(row, self.summary_fields)
FlattenObjectToList(item) == <<item.name, Str(item.size)>>

\* max_results of Handle: None when every page has to be fetched.
HandleMaxResults ==
  IF ls_sort_by # <<>> \/ ls_fetch_all_pages THEN None ELSE ls_max_results

\* None in the list of zones of Handle: the global namespace.
NoZone == ""

ZonesToListMutant ==
  (IF ls_is_global_level THEN <<NoZone>> ELSE <<>>) \o ls_zones

\* zones of Handle.
ZonesToList ==
  IF ls_zone # <<>>
  THEN IF ls_is_global_level /\ ls_zone = <<GLOBAL_ZONE_NAME>>
       THEN <<NoZone>>
       ELSE <<DenormalizeResourceName(ls_zone)>>
  ELSE (IF ls_is_global_level THEN <<NoZone>> ELSE <<>>) \o ls_zones

\* The namespace a list call reads: ListZoneFunc() if zone else ListFunc().
NamespaceOf(zone) == IF zone = NoZone THEN GLOBAL_ZONE_NAME ELSE zone

\* The service knows the zone of a list call.
ZoneExists(zone) ==
  zone = NoZone \/ \E k \in DOMAIN ls_zones : ls_zones[k] = zone

\* The loop over zones: items.extend(sub_result.get('items', []))
RECURSIVE ExtendItems(_, _)
ExtendItems(items_so_far, zones) ==
  IF zones = <<>> THEN items_so_far
  ELSE ExtendItems(
         items_so_far \o Slice(ls_served[NamespaceOf(Head(zones))],
                               HandleMaxResults),
         Tail(zones))

\* The zone-level branch of Handle is taken.
PerZone == ls_api14 /\ ls_is_zone_level

\* sort_col of _PrintList
SortCol == IF ls_sort_by # <<>> THEN ls_sort_by ELSE ls_default_sort_field

ReverseMutant(sort_col) == FALSE

\* reverse: sort_col.startswith('-')
Reverse(sort_col) == sort_col # <<>> /\ Head(sort_col) = "-"

\* sort_col[1:] when it starts with '-'
SortColName(sort_col) == IF Reverse(sort_col) THEN Tail(sort_col) ELSE sort_col

\* column_names.index(sort_col)
ColumnIndex(sort_col) ==
  CHOOSE k \in DOMAIN ColumnNames : ColumnNames[k] = sort_col

\* row x comes strictly before row y in the order asked for.
Before(x, y, idx, reverse) ==
  IF reverse THEN StrLess(y[idx], x[idx]) ELSE StrLess(x[idx], y[idx])

\* sorted() is stable: a row goes behind the rows it does not come before.
RECURSIVE InsertRow(_, _, _, _)
InsertRow(sorted, row, idx, reverse) ==
  IF sorted = <<>> THEN <<row>>
  ELSE IF Before(row, Head(sorted), idx, reverse) THEN <<row>> \o sorted
  ELSE <<Head(sorted)>> \o InsertRow(Tail(sorted), row, idx, reverse)

\* sorted(rows, key=(lambda row: row[sort_col_idx]), reverse=reverse)
RECURSIVE Sorted(_, _, _)
Sorted(rows, idx, reverse) ==
  IF rows = <<>> THEN <<>>
  ELSE InsertRow(Sorted(SubSeq(rows, 1, Len(rows) - 1), idx, reverse),
                 rows[Len(rows)], idx, reverse)

\* The rows of _PrintList after the sort.
SortedRows(rows) ==
  IF SortCol # <<>>
       /\ \E k \in DOMAIN ColumnNames : ColumnNames[k] = SortColName(SortCol)
  THEN Sorted(rows, ColumnIndex(SortColName(SortCol)), Reverse(SortCol))
  ELSE rows

InitListIdle ==
  /\ ls_sort_by = <<>>
  /\ ls_fetch_all_pages = FALSE
  /\ ls_max_results = 1
  /\ ls_zone = <<>>
  /\ ls_is_zone_level = FALSE
  /\ ls_is_global_level = TRUE
  /\ ls_default_sort_field = <<>>
  /\ ls_api14 = FALSE
  /\ ls_zones = <<>>
  /\ ls_served = <<>>
  /\ ls_result = <<>>
  /\ ls_rows = <<>>
  /\ ls_pc = "idle"

InitList ==
  /\ ls_sort_by \in {<<>>} \cup SortFields
  /\ ls_fetch_all_pages \in BOOLEAN
  /\ ls_max_results \in 1..MaxResults
  /\ ls_zone \in {<<>>, <<GLOBAL_ZONE_NAME>>, <<"a">>,
                  <<"projects", "p", "zones", "b">>}
  /\ ls_is_zone_level \in BOOLEAN
  /\ ls_is_global_level \in BOOLEAN
  /\ ls_is_zone_level \/ ls_is_global_level
  /\ ls_default_sort_field \in {<<>>, <<"name">>, <<"insert-time">>}
  /\ ls_api14 \in BOOLEAN
  /\ ls_zones \in {<<"a", "b">>, <<"b", "a">>, <<"a">>}
  /\ ls_served \in [global : Arrangements(NamespaceItems(GLOBAL_ZONE_NAME),
                                           MaxZoneItems),
                     a : Arrangements(NamespaceItems("a"), MaxZoneItems),
                     b : Arrangements(NamespaceItems("b"), MaxZoneItems)]
  /\ ls_result = <<>>
  /\ ls_rows = <<>>
  /\ ls_pc = "start"

\* Handle returns {'kind': kind, 'items': items}.
ListHandle ==
  /\ ls_pc = "start"
  /\ PerZone => \A k \in DOMAIN ZonesToList : ZoneExists(ZonesToList[k])
  /\ ls_result' = IF PerZone THEN ExtendItems(<<>>, ZonesToList)
                  ELSE Slice(ls_served[GLOBAL_ZONE_NAME], HandleMaxResults)
  /\ ls_pc' = "handled"
  /\ UNCHANGED <<listFlags, listClass, listService, ls_rows>>
  /\ UNCHANGED listIdle

\* A list call for a zone the service does not know raises; Handle does not
\* catch it.
ListHandleRaises ==
  /\ ls_pc = "start"
  /\ PerZone
  /\ \E k \in DOMAIN ZonesToList : ~ZoneExists(ZonesToList[k])
  /\ ls_pc' = "raised"
  /\ UNCHANGED <<listFlags, listClass, listService, ls_result, ls_rows>>
  /\ UNCHANGED listIdle

\* _PrintList(result)
PrintList ==
  /\ ls_pc = "handled"
  /\ ls_rows' =
       LET rows == SortedRows([k \in DOMAIN ls_result |->
                                 FlattenObjectToList(ls_result[k])])
       IN  IF ~ls_fetch_all_pages THEN Slice(rows, ls_max_results) ELSE rows
  /\ ls_pc' = "printed"
  /\ UNCHANGED <<listFlags, listClass, listService, ls_result>>
  /\ UNCHANGED listIdle

\* PrintResult with print_json or --format=json, lines 1535-1540: the result
\* is dumped as Handle returned it.
PrintJson ==
  /\ ls_pc = "handled"
  /\ ls_pc' = "json"
  /\ UNCHANGED <<listFlags, listClass, listService, ls_result, ls_rows>>
  /\ UNCHANGED listIdle

\* PrintResult with --format=names, lines 1542-1544, and _PrintNamesOnly: the
\* name of each item of the result.
PrintNamesOnly ==
  /\ ls_pc = "handled"
  /\ ls_pc' = "names"
  /\ UNCHANGED <<listFlags, listClass, listService, ls_result, ls_rows>>
  /\ UNCHANGED listIdle

\* The items the command has output: the rows of the table, or the items of
\* the result for the formats json and names.
ListOutput ==
  IF ls_pc = "printed" THEN ls_rows
  ELSE IF ls_pc \in {"json", "names"} THEN ls_result
  ELSE <<>>

NextList ==
  ListHandle \/ ListHandleRaises \/ PrintList \/ PrintJson \/ PrintNamesOnly

\* The items a list call fetches in namespace ns: every item when the rows
\* are to be sorted or every page is asked for, else the first max_results.
Fetched(ns) ==
  IF ls_sort_by # <<>> \/ ls_fetch_all_pages \/ Len(ls_served[ns]) <= ls_max_results
  THEN ls_served[ns]
  ELSE SubSeq(ls_served[ns], 1, ls_max_results)

\* The items of the zones, one zone after the other.
RECURSIVE ZoneByZone(_)
ZoneByZone(zones) ==
  IF zones = <<>> THEN <<>>
  ELSE Fetched(zones[1]) \o ZoneByZone(SubSeq(zones, 2, Len(zones)))

\* --zone names a zone of the service.
NamesZone(zone) ==
  /\ ls_zone # <<>>
  /\ ls_zone[Len(ls_zone)] = zone
  /\ \E k \in DOMAIN ls_zones : ls_zones[k] = zone
  /\ ~(ls_is_global_level /\ ls_zone = <<"global">>)

\* C16: for a zone-level collection under v1beta14 or later, Handle returns
\* the items of the named zone only when --zone names a zone, the global
\* items only when --zone is 'global' and the collection is also
\* global-level, and with no zone the global items (if the collection is
\* global-level) followed by the items of each zone in the order of the zone
\* list.
C16_ListPerZone ==
  (ls_is_zone_level /\ ls_api14 /\ ls_pc \in {"handled", "printed"}) =>
    /\ \A zone \in {"a", "b"} : NamesZone(zone) => ls_result = Fetched(zone)
    /\ (ls_zone = <<"global">> /\ ls_is_global_level) =>
         ls_result = Fetched("global")
    /\ ls_zone = <<>> =>
         ls_result = (IF ls_is_global_level THEN Fetched("global") ELSE <<>>)
                       \o ZoneByZone(ls_zones)

C16_Witness ==
  /\ ls_is_zone_level /\ ls_is_global_level /\ ls_api14
  /\ ls_pc = "handled"
  /\ ls_zone = <<>>
  /\ ls_zones = <<"b", "a">>
  /\ Len(ls_result) = 2 * MaxZoneItems

\* The column the rows are sorted by, 0 when there is none.
C17_Column ==
  LET col == IF ls_sort_by # <<>> THEN ls_sort_by ELSE ls_default_sort_field
      name == IF col # <<>> /\ col[1] = "-" THEN SubSeq(col, 2, Len(col))
              ELSE col
  IN  IF name = <<"name">> THEN 1 ELSE IF name = <<"size-gb">> THEN 2 ELSE 0

C17_Descending ==
  LET col == IF ls_sort_by # <<>> THEN ls_sort_by ELSE ls_default_sort_field
  IN  col # <<>> /\ col[1] = "-"

\* The rows fetched, in the order of the server.
C17_Fetched == [k \in DOMAIN ls_result |->
                  <<ls_result[k].name, Str(ls_result[k].size)>>]

\* The number of times x occurs in s.
Occurrences(s, x) == Cardinality({k \in DOMAIN s : s[k] = x})

\* Cell x is in front of cell y in the order asked for.
C17_InFront(x, y) ==
  IF C17_Descending THEN StrLess(y, x) ELSE StrLess(x, y)

\* C17: the rows printed are the rows fetched, sorted by the column --sort_by
\* names (descending after '-'), by default_sort_field when --sort_by is
\* unset, in the order of the server when neither names a column; the sort
\* is applied to every fetched row and the sorted rows are then cut to
\* max_results.
C17_SortThenTruncate ==
  ls_pc = "printed" =>
    /\ Len(ls_rows) = IF ls_fetch_all_pages \/ Len(ls_result) <= ls_max_results
                      THEN Len(ls_result) ELSE ls_max_results
    /\ IF C17_Column = 0
       THEN ls_rows = SubSeq(C17_Fetched, 1, Len(ls_rows))
       ELSE /\ \A i, j \in DOMAIN ls_rows :
                 i < j => ~C17_InFront(ls_rows[j][C17_Column],
                                       ls_rows[i][C17_Column])
            /\ \A k \in DOMAIN C17_Fetched :
                 LET x == C17_Fetched[k]
                 IN  /\ Occurrences(ls_rows, x) <= Occurrences(C17_Fetched, x)
                     /\ Occurrences(ls_rows, x) < Occurrences(C17_Fetched, x)
                          => \A i \in DOMAIN ls_rows :
                               ~C17_InFront(x[C17_Column],
                                            ls_rows[i][C17_Column])
            /\ \A i \in DOMAIN ls_rows :
                 \E k \in DOMAIN C17_Fetched : C17_Fetched[k] = ls_rows[i]

C17_Witness ==
  /\ ls_pc = "printed"
  /\ ls_sort_by = <<"-", "size-gb">>
  /\ ~ls_fetch_all_pages
  /\ ls_max_results = 2
  /\ Len(ls_result) = 4
  /\ ls_rows[1][2] = <<9>>
  /\ ls_result[1].size = 9 /\ ls_result[2].size = 10

\* C28: without --fetch_all_pages a list command outputs at most max_results
\* items, in every output format, with or without --sort_by, and also when
\* the collection is listed in several zones.
C28_Original ==
  ~ls_fetch_all_pages => Len(ListOutput) <= ls_max_results

(***************************************************************************)
(* Part 10: GetOperation.Handle (operation_cmds.py 103-124) as called by   *)
(* RunWithFlagsAndPositionalArgs (command_base.py 1169-1178)               *)
(***************************************************************************)

\* A wait polls at most MaxGetOpPolls times.
MaxGetOpPolls == 3

OperationStatuses == {"PENDING", "RUNNING", "DONE"}

\* A request: the API, its method, and whether it is a poll of the wait.
ApiRequest(api, method, poll) == [api |-> api, method |-> method, poll |-> poll]

\* What GetOperation.Handle assigns to self._flags.synchronous_mode, line 115.
ForcedModeMutant == go_sync
ForcedMode == FALSE

\* _PrepareRequestArgs, lines 89-95: 'zone' in kwargs.
ZoneInKwargs == go_api14 /\ go_zone # GLOBAL_ZONE_NAME

\* Lines 117-121: the get method of the zone or of the global operations.
OperationsApi ==
  IF go_api14 /\ ZoneInKwargs THEN "zoneOperations" ELSE "globalOperations"

\* n polls of the operations API.
Polls(n) == [k \in 1..n |-> ApiRequest(OperationsApi, "get", TRUE)]

InitGetOpIdle ==
  /\ go_cmd = "getoperation"
  /\ go_sync = FALSE
  /\ go_api14 = FALSE
  /\ go_zone = GLOBAL_ZONE_NAME
  /\ go_result = ""
  /\ go_issued = <<>>
  /\ go_sleeps = 0
  /\ go_pc = "idle"

InitGetOp ==
  /\ go_cmd \in {"getoperation", "other"}
  /\ go_sync \in BOOLEAN
  /\ go_api14 \in BOOLEAN
  /\ go_zone \in {GLOBAL_ZONE_NAME, "a"}
  /\ go_result = ""
  /\ go_issued = <<>>
  /\ go_sleeps = 0
  /\ go_pc = "start"

\* GetOperation.Handle, lines 103-124: force asynchronous mode, build the get
\* request and execute it.
GetOperationHandle ==
  /\ go_pc = "start"
  /\ go_cmd = "getoperation"
  /\ go_sync' = ForcedMode
  /\ go_issued' = Append(go_issued, ApiRequest(OperationsApi, "get", FALSE))
  /\ go_result' \in OperationStatuses
  /\ go_pc' = "handled"
  /\ UNCHANGED <<go_cmd, go_api14, go_zone, go_sleeps>>
  /\ UNCHANGED getOpIdle

\* Line 1171 for another command: Handle executes a request that returns an
\* operation.
OtherHandle ==
  /\ go_pc = "start"
  /\ go_cmd = "other"
  /\ go_issued' = Append(go_issued, ApiRequest("resource", "insert", FALSE))
  /\ go_result' \in OperationStatuses
  /\ go_pc' = "handled"
  /\ UNCHANGED <<go_cmd, go_sync, go_api14, go_zone, go_sleeps>>
  /\ UNCHANGED getOpIdle

\* Lines 1173-1178 in synchronous mode: WaitForOperation, which sleeps before
\* each poll and polls while the operation is not DONE and the time not up.
RunWaits ==
  /\ go_pc = "handled"
  /\ go_sync
  /\ IF go_result = "DONE"
       THEN UNCHANGED <<go_result, go_issued, go_sleeps>>
       ELSE \E n \in 1..MaxGetOpPolls :
              /\ go_issued' = go_issued \o Polls(n)
              /\ go_sleeps' = go_sleeps + n
              /\ go_result' \in OperationStatuses
  /\ go_pc' = "returned"
  /\ UNCHANGED <<go_cmd, go_sync, go_api14, go_zone>>
  /\ UNCHANGED getOpIdle

\* Lines 1173-1178 in asynchronous mode: the result is returned as it is.
RunReturnsAtOnce ==
  /\ go_pc = "handled"
  /\ ~go_sync
  /\ go_pc' = "returned"
  /\ UNCHANGED <<go_cmd, go_sync, go_api14, go_zone, go_result, go_issued,
                 go_sleeps>>
  /\ UNCHANGED getOpIdle

NextGetOp == GetOperationHandle \/ OtherHandle \/ RunWaits \/ RunReturnsAtOnce

\* C27: getoperation issues exactly one get request and neither polls nor
\* sleeps, whatever the status of the operation it retrieves and whatever
\* the flag synchronous_mode was set to.
C27_GetOperationAsync ==
  go_cmd = "getoperation" =>
    /\ go_sleeps = 0
    /\ \A k \in DOMAIN go_issued : ~go_issued[k].poll
    /\ go_pc \in {"handled", "returned"} =>
         /\ ~go_sync
         /\ Len(go_issued) = 1
         /\ go_issued[1].method = "get"

\* getoperation was run in synchronous mode, the operation it got is still
\* PENDING, and the command has returned.
C27_Witness ==
  /\ go_cmd = "getoperation"
  /\ go_pc = "returned"
  /\ go_result = "PENDING"
  /\ go_issued = <<ApiRequest("zoneOperations", "get", FALSE)>>

(***************************************************************************)
(* Part 11: ResumeMove.HandleMove up to its first request                  *)
(* (move_cmds.py 715-770), entered by Handle under v1beta14 or later       *)
(***************************************************************************)

\* The mutating requests of one resume are at most MaxResumeRequests.
MaxResumeRequests == 2

\* The keys HandleMove reads with _GetKey, in the order of its calls.
LogKeys == <<"src_zone", "dest_zone", "snapshot_mappings", "instances">>

\* A key of the log is missing, is null, or has a value.
KeyStates == {"missing", "null", "value"}

\* The logs: a state for each key, and the logged instances when there are any.
ResumeLogs ==
  {[keys |-> ks, instances |-> ins] :
     ks \in [{LogKeys[k] : k \in DOMAIN LogKeys} -> KeyStates],
     ins \in {<<>>, <<1>>, <<1, 2>>}}

\* _GetKey, lines 715-721: log.get(key) is None.
GetKeyRaisesMutant(log, key) == log.keys[key] = "missing"
GetKeyRaises(log, key) == log.keys[key] \in {"missing", "null"}

\* Lines 747-753: one of the four _GetKey calls raises.
ParseRaises(log) == \E k \in DOMAIN LogKeys : GetKeyRaises(log, LogKeys[k])

\* Lines 755-766: the logged instances that are not in the destination zone.
InstancesLeft == Subtract(rs_log.instances, ListOf(rs_in_dest))

InitResumeIdle ==
  /\ rs_exists = FALSE
  /\ rs_log = [keys |-> [key \in {LogKeys[k] : k \in DOMAIN LogKeys} |-> "missing"],
               instances |-> <<>>]
  /\ rs_in_dest = {}
  /\ rs_requests = 0
  /\ rs_removed = FALSE
  /\ rs_error = "none"
  /\ rs_pc = "idle"

InitResume ==
  /\ rs_exists \in BOOLEAN
  /\ rs_log \in ResumeLogs
  /\ rs_log.keys["instances"] # "value" => rs_log.instances = <<>>
  /\ rs_in_dest \in SUBSET InstanceNames
  /\ rs_requests = 0
  /\ rs_removed = FALSE
  /\ rs_error = "none"
  /\ rs_pc = "start"

\* Lines 742-770: there is no log file, a key is not there, or nothing is
\* left to move: CommandError.
ResumeRaises ==
  /\ rs_pc = "start"
  /\ \/ ~rs_exists
     \/ ParseRaises(rs_log)
     \/ InstancesLeft = <<>>
  /\ rs_error' = "CommandError"
  /\ rs_pc' = "raised"
  /\ UNCHANGED <<rs_exists, rs_log, rs_in_dest, rs_requests, rs_removed>>
  /\ UNCHANGED resumeIdle

\* Lines 742-770 pass: HandleMove goes on with the move.
ResumeProceeds ==
  /\ rs_pc = "start"
  /\ rs_exists
  /\ ~ParseRaises(rs_log)
  /\ InstancesLeft # <<>>
  /\ rs_pc' = "moving"
  /\ UNCHANGED <<rs_exists, rs_log, rs_in_dest, rs_requests, rs_removed, rs_error>>
  /\ UNCHANGED resumeIdle

\* Lines 799-815: a delete or an insert request of the move.
ResumeRequest ==
  /\ rs_pc = "moving"
  /\ rs_requests < MaxResumeRequests
  /\ rs_requests' = rs_requests + 1
  /\ UNCHANGED <<rs_exists, rs_log, rs_in_dest, rs_removed, rs_error, rs_pc>>
  /\ UNCHANGED resumeIdle

\* Lines 817-819: the move is over; the log file is removed unless
\* keep_log_file is set.
ResumeEnds ==
  /\ rs_pc = "moving"
  /\ rs_removed' \in BOOLEAN
  /\ rs_pc' = "done"
  /\ UNCHANGED <<rs_exists, rs_log, rs_in_dest, rs_requests, rs_error>>
  /\ UNCHANGED resumeIdle

NextResume == ResumeRaises \/ ResumeProceeds \/ ResumeRequest \/ ResumeEnds

\* The cases of C23: no log file, one of the four keys missing or null, or
\* every logged instance present by name in the destination zone.
C23_Refused ==
  \/ ~rs_exists
  \/ \E k \in DOMAIN LogKeys : rs_log.keys[LogKeys[k]] # "value"
  \/ \A j \in DOMAIN rs_log.instances : rs_log.instances[j] \in rs_in_dest

\* C23: when the log file does not exist, when the log lacks or has null for
\* one of src_zone, dest_zone, snapshot_mappings and instances, or when every
\* logged instance is already in the destination zone by name, resumemove
\* raises CommandError, issues no mutating request and does not remove the
\* log file.
C23_ResumeRefuses ==
  (C23_Refused /\ rs_pc \notin {"idle", "start"}) =>
    /\ rs_pc = "raised"
    /\ rs_error = "CommandError"
    /\ rs_requests = 0
    /\ ~rs_removed

\* The log is there and complete but for a null snapshot_mappings, and an
\* instance is left to move: CommandError.
C23_Witness ==
  /\ rs_pc = "raised"
  /\ rs_exists
  /\ rs_log.keys = [src_zone |-> "value", dest_zone |-> "value",
                    snapshot_mappings |-> "null", instances |-> "value"]
  /\ rs_log.instances = <<1, 2>>
  /\ rs_in_dest = {1}
  /\ rs_error = "CommandError"

(***************************************************************************)
(* The specifications: one part runs, the others stay idle.                *)
(***************************************************************************)

InitSpecAll ==
  /\ InitAll
  /\ InitWaitIdle
  /\ InitExecIdle
  /\ InitRunIdle
  /\ InitMoveIdle
  /\ InitQuotaIdle
  /\ InitChecksIdle
  /\ InitPromptIdle
  /\ InitListIdle
  /\ InitGetOpIdle
  /\ InitResumeIdle

SpecAll == InitSpecAll /\ [][NextAll]_vars

InitSpecWait ==
  /\ InitAllIdle
  /\ InitWait
  /\ InitExecIdle
  /\ InitRunIdle
  /\ InitMoveIdle
  /\ InitQuotaIdle
  /\ InitChecksIdle
  /\ InitPromptIdle
  /\ InitListIdle
  /\ InitGetOpIdle
  /\ InitResumeIdle

SpecWait == InitSpecWait /\ [][NextWait]_vars

InitSpecExec ==
  /\ InitAllIdle
  /\ InitWaitIdle
  /\ InitExec
  /\ InitRunIdle
  /\ InitMoveIdle
  /\ InitQuotaIdle
  /\ InitChecksIdle
  /\ InitPromptIdle
  /\ InitListIdle
  /\ InitGetOpIdle
  /\ InitResumeIdle

SpecExec == InitSpecExec /\ [][NextExec]_vars

InitSpecRun ==
  /\ InitAllIdle
  /\ InitWaitIdle
  /\ InitExecIdle
  /\ InitRun
  /\ InitMoveIdle
  /\ InitQuotaIdle
  /\ InitChecksIdle
  /\ InitPromptIdle
  /\ InitListIdle
  /\ InitGetOpIdle
  /\ InitResumeIdle

SpecRun == InitSpecRun /\ [][NextRun]_vars

InitSpecMove ==
  /\ InitAllIdle
  /\ InitWaitIdle
  /\ InitExecIdle
  /\ InitRunIdle
  /\ InitMove
  /\ InitQuotaIdle
  /\ InitChecksIdle
  /\ InitPromptIdle
  /\ InitListIdle
  /\ InitGetOpIdle
  /\ InitResumeIdle

SpecMove == InitSpecMove /\ [][NextMove]_vars

InitSpecQuota ==
  /\ InitAllIdle
  /\ InitWaitIdle
  /\ InitExecIdle
  /\ InitRunIdle
  /\ InitMoveIdle
  /\ InitQuota
  /\ InitChecksIdle
  /\ InitPromptIdle
  /\ InitListIdle
  /\ InitGetOpIdle
  /\ InitResumeIdle

SpecQuota == InitSpecQuota /\ [][NextQuota]_vars

InitSpecChecks ==
  /\ InitAllIdle
  /\ InitWaitIdle
  /\ InitExecIdle
  /\ InitRunIdle
  /\ InitMoveIdle
  /\ InitQuotaIdle
  /\ InitChecks
  /\ InitPromptIdle
  /\ InitListIdle
  /\ InitGetOpIdle
  /\ InitResumeIdle

SpecChecks == InitSpecChecks /\ [][NextChecks]_vars

InitSpecPrompt ==
  /\ InitAllIdle
  /\ InitWaitIdle
  /\ InitExecIdle
  /\ InitRunIdle
  /\ InitMoveIdle
  /\ InitQuotaIdle
  /\ InitChecksIdle
  /\ InitPrompt
  /\ InitListIdle
  /\ InitGetOpIdle
  /\ InitResumeIdle

SpecPrompt == InitSpecPrompt /\ [][NextPrompt]_vars

InitSpecList ==
  /\ InitAllIdle
  /\ InitWaitIdle
  /\ InitExecIdle
  /\ InitRunIdle
  /\ InitMoveIdle
  /\ InitQuotaIdle
  /\ InitChecksIdle
  /\ InitPromptIdle
  /\ InitList
  /\ InitGetOpIdle
  /\ InitResumeIdle

SpecList == InitSpecList /\ [][NextList]_vars

InitSpecGetOp ==
  /\ InitAllIdle
  /\ InitWaitIdle
  /\ InitExecIdle
  /\ InitRunIdle
  /\ InitMoveIdle
  /\ InitQuotaIdle
  /\ InitChecksIdle
  /\ InitPromptIdle
  /\ InitListIdle
  /\ InitGetOp
  /\ InitResumeIdle

SpecGetOp == InitSpecGetOp /\ [][NextGetOp]_vars

InitSpecResume ==
  /\ InitAllIdle
  /\ InitWaitIdle
  /\ InitExecIdle
  /\ InitRunIdle
  /\ InitMoveIdle
  /\ InitQuotaIdle
  /\ InitChecksIdle
  /\ InitPromptIdle
  /\ InitListIdle
  /\ InitGetOpIdle
  /\ InitResume

SpecResume == InitSpecResume /\ [][NextResume]_vars

\* The command's thread keeps running: a step that can be taken is taken.
SpecWaitLive == SpecWait /\ WF_vars(NextWait)

====
